---- MODULE Spec2Model ----
(***************************************************************************)
(* Migration-intelligence core of repo-importer: the dead-code detector,   *)
(* the dependency-graph builder with its Kahn migration order, and the     *)
(* risk assessor, as state machines translated from                        *)
(* src/app/services/analyzers/*.py.                                        *)
(*                                                                         *)
(* Python strings are sequences of one-character strings, so that          *)
(* str.startswith / str.endswith / concatenation are computed, not         *)
(* assumed.  Python floats are IEEE-754 doubles, modelled exactly as       *)
(* three-limb fixed-point numbers (see the risk assessor section).         *)
(***************************************************************************)
EXTENDS Integers, Sequences, FiniteSets, TLC

VARIABLES
    \* ---- dead_code.detect_dead_code ----
    py_files,          \* the project directory: sequence of [path, status, tree]
    dc_pc,             \* position of detect_dead_code: "pass1", "pass2", "done", "raised"
    dc_i,              \* index of the next file of the pass-1 loop
    all_definitions,   \* dict rel_path -> defs, as a sequence in insertion order
    all_references,    \* set of reference strings
    all_imports,       \* dict rel_path -> imports, as a sequence in insertion order
    dead,              \* the list of DeadCodeItem built by pass 2
    \* ---- dependency_graph.build_dependency_graph / _topological_sort ----
    g_files,           \* the project directory: sequence of [path, status, imports]
    g_pc,              \* "parse", "seed", "kahn", "done", "raised"
    g_i,               \* index of the next file of the parse loop
    module_map,        \* dotted module name -> rel path
    imports_map,       \* rel path -> set of imported rel paths
    imported_by_map,   \* rel path -> set of importing rel paths
    external_deps,     \* rel path -> set of external top-level package names
    in_degree,         \* _topological_sort: file -> remaining internal imports
    dependents_map,    \* _topological_sort: file -> files that import it
    queue,             \* _topological_sort: the Kahn deque
    order,             \* _topological_sort: file -> rank (a dict that grows)
    idx,               \* _topological_sort: the next rank
    graph,             \* the returned dict rel path -> DependencyNode
    prev_order,        \* the migration_order of every file in the previous run
    \* ---- risk_assessor.assess_risks ----
    dep_graph,         \* the dict rel path -> DependencyNode, as a sequence in dict order
    sources,           \* rel path -> what open/read/scan/parse find in the file
    r_pc,              \* "loop", "done", "raised"
    r_i,               \* index of the next item of `for rel_path, node in dep_graph.items()`
    results,           \* the list of RiskAssessment
    prev_results,      \* what assess_risks returned in the previous run
    \* ---- code_executor.execute_python, one call per run ("py2", "py3") ----
    ex_args,           \* the arguments of the call and what the script does
    ex_pc,             \* where the coroutine is
    proc,              \* the child process, its process group and its returncode
    pipe,              \* the bytes buffered in the stdout and stderr stream readers
    ex,                \* the locals of execute_python
    ex_result,         \* the ExecutionResult returned
    now,               \* the wall clock, in seconds
    \* ---- project_manager.run_and_compare ----
    rc_env,            \* the project, the files, the interpreters and the request
    rc_pc,             \* where the coroutine is
    temp,              \* the TemporaryDirectory of each run
    rc,                \* the locals of run_and_compare and its outcome
    \* ---- output_comparator.compare_outputs, two calls ----
    co_calls,          \* the two results given to each of the two calls
    co_results,        \* the dict each call has returned
    \* ---- code_executor.check_interpreter, one call per interpreter ("py2", "py3") ----
    ci_env,            \* what is at the interpreter path: how it starts and how `--version` ends
    ci_pc,             \* where the coroutine is
    ci_proc,           \* the version-probe process and its returncode
    ci_deadline,       \* when the wait_for of the call expires
    ci_result,         \* the bool returned
    ci_now,            \* the wall clock of the checks, in seconds
    \* ---- project_manager: create_project, save_file, analyze_project, transform_file ----
    pj,                \* the dict of the project in _projects, or None
    pj_disk,           \* the names of the files in the source directory of the project
    pj_inflight,       \* the file_path of every transform_file call suspended in its gather
    pj_last            \* the last call that ended, and how

deadVars == <<py_files, dc_pc, dc_i, all_definitions, all_references, all_imports, dead>>

graphVars == <<g_files, g_pc, g_i, module_map, imports_map, imported_by_map, external_deps,
               in_degree, dependents_map, queue, order, idx, graph, prev_order>>

riskVars == <<dep_graph, sources, r_pc, r_i, results, prev_results>>

execVars == <<ex_args, ex_pc, proc, pipe, ex, ex_result, now>>

compareVars == <<rc_env, rc_pc, temp, rc>>

outputsVars == <<co_calls, co_results>>

probeVars == <<ci_env, ci_pc, ci_proc, ci_deadline, ci_result, ci_now>>

projectVars == <<pj, pj_disk, pj_inflight, pj_last>>

vars == <<deadVars, graphVars, riskVars, execVars, compareVars, outputsVars, probeVars, projectVars>>

notDeadVars == <<graphVars, riskVars, execVars, compareVars, outputsVars, probeVars, projectVars>>
notGraphVars == <<deadVars, riskVars, execVars, compareVars, outputsVars, probeVars, projectVars>>
notRiskVars == <<deadVars, graphVars, execVars, compareVars, outputsVars, probeVars, projectVars>>
notExecVars == <<deadVars, graphVars, riskVars, compareVars, outputsVars, probeVars, projectVars>>
notCompareVars == <<deadVars, graphVars, riskVars, outputsVars, probeVars, projectVars>>
notOutputsVars == <<deadVars, graphVars, riskVars, execVars, compareVars, probeVars, projectVars>>
notProbeVars == <<deadVars, graphVars, riskVars, execVars, compareVars, outputsVars, projectVars>>
notProjectVars == <<deadVars, graphVars, riskVars, execVars, compareVars, outputsVars, probeVars>>

\* The state of compare_outputs while it is not called on its own.
OutputsIdle ==
    /\ co_calls = <<>>
    /\ co_results = <<>>

\* The state of check_interpreter while it is not called on its own.
ProbeIdle ==
    /\ ci_env = <<>>
    /\ ci_pc = <<>>
    /\ ci_proc = <<>>
    /\ ci_deadline = <<>>
    /\ ci_result = <<>>
    /\ ci_now = 0

\* The state of the project store while no project call is made.
ProjectIdle ==
    /\ pj = <<>>
    /\ pj_disk = {}
    /\ pj_inflight = {}
    /\ pj_last = <<>>

\* The two executions of run_and_compare.
Runs == {"py2", "py3"}

\* The state of run_and_compare while it is not called.
CompareIdle ==
    /\ rc_env = <<>>
    /\ rc_pc = "idle"
    /\ temp = [x \in Runs |-> "none"]
    /\ rc = <<>>

\* None, and an int, as the values of an `int | None`.
None == <<>>
Some(v) == <<v>>

\* The state of the executor while no execution has been started.
ExecIdle ==
    /\ ex_args = [x \in Runs |-> <<>>]
    /\ ex_pc = [x \in Runs |-> "idle"]
    /\ proc = [x \in Runs |-> <<>>]
    /\ pipe = [x \in Runs |-> <<>>]
    /\ ex = [x \in Runs |-> <<>>]
    /\ ex_result = [x \in Runs |-> None]
    /\ now = 0

\* The state of assess_risks while another analysis runs.
RiskIdle ==
    /\ dep_graph = <<>>
    /\ sources = <<>>
    /\ r_pc = "idle"
    /\ r_i = 1
    /\ results = <<>>
    /\ prev_results = <<>>

\* The state of build_dependency_graph while another analysis runs.
GraphIdle ==
    /\ g_files = <<>>
    /\ g_pc = "idle"
    /\ g_i = 1
    /\ module_map = <<>>
    /\ imports_map = <<>>
    /\ imported_by_map = <<>>
    /\ external_deps = <<>>
    /\ in_degree = <<>>
    /\ dependents_map = <<>>
    /\ queue = <<>>
    /\ order = <<>>
    /\ idx = 0
    /\ graph = <<>>
    /\ prev_order = <<>>

(***************************************************************************)
(* Strings                                                                 *)
(***************************************************************************)
StartsWith(s, p) == Len(p) <= Len(s) /\ SubSeq(s, 1, Len(p)) = p

EndsWith(s, p) == Len(p) <= Len(s) /\ SubSeq(s, Len(s) - Len(p) + 1, Len(s)) = p

Range(s) == {s[i] : i \in 1..Len(s)}

\* Identifiers that occur in the analysed sources.
Id_h == <<"_", "h">>
Id_f == <<"f">>
Id_main == <<"m", "a", "i", "n">>
Id_init == <<"_", "_", "i", "n", "i", "t", "_", "_">>
Id_test == <<"t", "e", "s", "t", "_", "f">>
Id_Foo == <<"F", "o", "o">>
Id_self == <<"s", "e", "l", "f">>

\* Project-relative paths of the analysed files.
Path_a == <<"a", ".", "p", "y">>
Path_b == <<"b", ".", "p", "y">>
Path_ab == <<"a", ".", "p", "y", ":", "b", ".", "p", "y">>

(***************************************************************************)
(* dead_code.py                                                            *)
(***************************************************************************)

\* _is_entrypoint: the reserved names, a "__" prefix, or a "test_" prefix.
entrypoint_names ==
    { Id_main,
      <<"s", "e", "t", "u", "p">>,
      <<"t", "e", "a", "r", "d", "o", "w", "n">>,
      <<"r", "u", "n">>,
      <<"c", "l", "i">>,
      <<"a", "p", "p">>,
      <<"c", "r", "e", "a", "t", "e", "_", "a", "p", "p">> }

IsEntrypointName(name) ==
    \/ name \in entrypoint_names
    \/ StartsWith(name, <<"_", "_">>)
    \/ StartsWith(name, <<"t", "e", "s", "t", "_">>)

IsEntrypoint(d) == IsEntrypointName(d.name)

\* d.name.startswith("_") and not d.name.startswith("__")
IsPrivateName(name) == StartsWith(name, <<"_">>) /\ ~StartsWith(name, <<"_", "_">>)

\* The definitions of one top-level node of the tree, in the order
\* _analyze_file appends them: the class, then its methods as Class.method.
RECURSIVE MethodDefs(_, _)
MethodDefs(cls, body) ==
    IF body = <<>> THEN <<>>
    ELSE <<[name |-> cls \o <<".">> \o Head(body), kind |-> "method"]>>
         \o MethodDefs(cls, Tail(body))

NodeDefs(node) ==
    IF node.type = "ClassDef"
    THEN <<[name |-> node.name, kind |-> "class"]>> \o MethodDefs(node.name, node.body)
    ELSE <<[name |-> node.name, kind |-> "function"]>>

RECURSIVE CollectDefs(_)
CollectDefs(body) ==
    IF body = <<>> THEN <<>> ELSE NodeDefs(Head(body)) \o CollectDefs(Tail(body))

\* The references one node of ast.walk adds for the file rel_path.
NameRefs(id, rel_path) == {id, rel_path \o <<":">> \o id}

AttributeRefs(node, rel_path) ==
    NameRefs(node.attr, rel_path)
    \cup (IF node.value # <<>>
          THEN NameRefs(node.value \o <<".">> \o node.attr, rel_path)
          ELSE {})

\* _analyze_file(tree, rel_path) -> (defs, refs, imports)
AnalyzeFile(tree, rel_path) ==
    [ defs |-> CollectDefs(tree.body),
      refs |-> UNION {NameRefs(id, rel_path) : id \in tree.names}
               \cup UNION {AttributeRefs(n, rel_path) : n \in tree.attrs},
      imports |-> tree.imports ]

\* file_refs = {r for r in all_references if r.startswith(fpath + ":")}
\* any(r.endswith(":" + name) for r in file_refs)
ReferencedInFile(refs, fpath, name) ==
    \E r \in refs : StartsWith(r, fpath \o <<":">>) /\ EndsWith(r, <<":">> \o name)

\* The test of pass 2 on one definition d of file fpath.
\* Mutant: every definition is treated as file-scoped, as private names are.
DefIsDeadFileScoped(refs, fpath, d) ==
    ~ReferencedInFile(refs, fpath, d.name) /\ ~IsEntrypoint(d)

DefIsDead(refs, fpath, d) ==
    IF IsPrivateName(d.name)
    THEN ~ReferencedInFile(refs, fpath, d.name)
    ELSE d.name \notin refs /\ ~IsEntrypoint(d)

ImportIsDead(refs, fpath, name) ==
    ~ReferencedInFile(refs, fpath, name) /\ name \notin refs

DeadCodeItem(fpath, name, kind) == [file_path |-> fpath, name |-> name, kind |-> kind]

RECURSIVE DeadDefsOfFile(_, _, _)
DeadDefsOfFile(refs, fpath, defs) ==
    IF defs = <<>> THEN <<>>
    ELSE (IF DefIsDead(refs, fpath, Head(defs))
          THEN <<DeadCodeItem(fpath, Head(defs).name, Head(defs).kind)>>
          ELSE <<>>)
         \o DeadDefsOfFile(refs, fpath, Tail(defs))

RECURSIVE DeadDefs(_, _)
DeadDefs(refs, alldefs) ==
    IF alldefs = <<>> THEN <<>>
    ELSE DeadDefsOfFile(refs, Head(alldefs).path, Head(alldefs).defs)
         \o DeadDefs(refs, Tail(alldefs))

RECURSIVE DeadImportsOfFile(_, _, _)
DeadImportsOfFile(refs, fpath, imports) ==
    IF imports = <<>> THEN <<>>
    ELSE (IF ImportIsDead(refs, fpath, Head(imports))
          THEN <<DeadCodeItem(fpath, Head(imports), "import")>>
          ELSE <<>>)
         \o DeadImportsOfFile(refs, fpath, Tail(imports))

RECURSIVE DeadImports(_, _)
DeadImports(refs, allimps) ==
    IF allimps = <<>> THEN <<>>
    ELSE DeadImportsOfFile(refs, Head(allimps).path, Head(allimps).imports)
         \o DeadImports(refs, Tail(allimps))

\* ---- the inputs: the trees a file can parse to ----
FunctionDef(n) == [type |-> "FunctionDef", name |-> n, body |-> <<>>]
ClassDef(n, methods) == [type |-> "ClassDef", name |-> n, body |-> methods]

DefNames == {Id_h, Id_f, Id_main, Id_init, Id_test}

TopLevelNodes ==
    {FunctionDef(n) : n \in DefNames}
    \cup {ClassDef(Id_Foo, <<>>)}
    \cup {ClassDef(Id_Foo, <<n>>) : n \in DefNames}

Bodies == {<<>>} \cup {<<n>> : n \in TopLevelNodes}

\* Reference and import nodes met by ast.walk.
NameNode(id) == [type |-> "Name", id |-> id]
AttributeNode(value, attr) == [type |-> "Attribute", value |-> value, attr |-> attr]
ImportNode(name) == [type |-> "Import", name |-> name]

WalkNodes ==
    { NameNode(Id_h), NameNode(Id_f), NameNode(Id_Foo),
      AttributeNode(Id_self, Id_f), AttributeNode(Id_Foo, Id_f),
      AttributeNode(Id_self, Id_h), ImportNode(Id_h) }

MaxWalkNodes == 1

BoundedSubsets(S, n) == {T \in SUBSET S : Cardinality(T) <= n}

RECURSIVE SetToSeq(_)
SetToSeq(S) ==
    IF S = {} THEN <<>>
    ELSE LET x == CHOOSE y \in S : TRUE IN <<x>> \o SetToSeq(S \ {x})

Tree(body, nodes) ==
    [ body |-> body,
      names |-> {n.id : n \in {m \in nodes : m.type = "Name"}},
      attrs |-> {m \in nodes : m.type = "Attribute"},
      imports |-> SetToSeq({n.name : n \in {m \in nodes : m.type = "Import"}}) ]

EmptyTree == Tree(<<>>, {})

Trees == {Tree(b, ns) : b \in Bodies, ns \in BoundedSubsets(WalkNodes, MaxWalkNodes)}

\* What open() + f.read() + ast.parse() do on a file.
FileContents ==
    {[status |-> "ok", tree |-> t] : t \in Trees}
    \cup {[status |-> s, tree |-> EmptyTree] :
             s \in {"SyntaxError", "UnicodeDecodeError", "PermissionError"}}

\* The directory listings of os.walk that are analysed.
PathLists == {<<Path_a, Path_b>>, <<Path_b, Path_a>>, <<Path_a, Path_ab>>}

File(p, c) == [path |-> p, status |-> c.status, tree |-> c.tree]

DeadInit ==
    /\ GraphIdle
    /\ RiskIdle
    /\ ExecIdle
    /\ CompareIdle
    /\ OutputsIdle
    /\ ProbeIdle
    /\ ProjectIdle
    /\ \E ps \in PathLists : \E c1 \in FileContents, c2 \in FileContents :
           py_files = <<File(ps[1], c1), File(ps[2], c2)>>
    /\ dc_pc = "pass1"
    /\ dc_i = 1
    /\ all_definitions = <<>>
    /\ all_references = {}
    /\ all_imports = <<>>
    /\ dead = <<>>

\* The state of detect_dead_code while another analysis runs.
DeadIdle ==
    /\ py_files = <<>>
    /\ dc_pc = "idle"
    /\ dc_i = 1
    /\ all_definitions = <<>>
    /\ all_references = {}
    /\ all_imports = <<>>
    /\ dead = <<>>

\* Pass 1, one iteration of `for fpath in py_files` on a file that parses.
Pass1Parse ==
    /\ dc_pc = "pass1"
    /\ dc_i <= Len(py_files)
    /\ py_files[dc_i].status = "ok"
    /\ LET f == py_files[dc_i]
           r == AnalyzeFile(f.tree, f.path)
       IN /\ all_definitions' = Append(all_definitions, [path |-> f.path, defs |-> r.defs])
          /\ all_references' = all_references \cup r.refs
          /\ all_imports' = Append(all_imports, [path |-> f.path, imports |-> r.imports])
    /\ dc_i' = dc_i + 1
    /\ UNCHANGED <<py_files, dc_pc, dead, notDeadVars>>

\* except (SyntaxError, UnicodeDecodeError): continue
Pass1Skip ==
    /\ dc_pc = "pass1"
    /\ dc_i <= Len(py_files)
    /\ py_files[dc_i].status \in {"SyntaxError", "UnicodeDecodeError"}
    /\ dc_i' = dc_i + 1
    /\ UNCHANGED <<py_files, dc_pc, all_definitions, all_references, all_imports, dead, notDeadVars>>

\* Any other exception of open()/read() is not caught: the pass raises.
Pass1Raise ==
    /\ dc_pc = "pass1"
    /\ dc_i <= Len(py_files)
    /\ py_files[dc_i].status \notin {"ok", "SyntaxError", "UnicodeDecodeError"}
    /\ dc_pc' = "raised"
    /\ UNCHANGED <<py_files, dc_i, all_definitions, all_references, all_imports, dead, notDeadVars>>

\* Pass 2: the definitions loop, then the imports loop, then return dead.
Pass2 ==
    /\ dc_pc = "pass1"
    /\ dc_i > Len(py_files)
    /\ dead' = DeadDefs(all_references, all_definitions)
               \o DeadImports(all_references, all_imports)
    /\ dc_pc' = "done"
    /\ UNCHANGED <<py_files, dc_i, all_definitions, all_references, all_imports, notDeadVars>>

DeadNext == Pass1Parse \/ Pass1Skip \/ Pass1Raise \/ Pass2

SpecDead == DeadInit /\ [][DeadNext]_vars

(***************************************************************************)
(* Properties of detect_dead_code                                          *)
(***************************************************************************)
ParsedIdx == {i \in 1..Len(py_files) : py_files[i].status = "ok"}

\* The definitions a source declares: own is the declared identifier, name
\* the name the Definition is recorded under.
DeclaredBy(node) ==
    {[name |-> node.name, own |-> node.name,
      kind |-> IF node.type = "ClassDef" THEN "class" ELSE "function"]}
    \cup {[name |-> node.name \o <<".">> \o node.body[k], own |-> node.body[k],
           kind |-> "method"] : k \in 1..Len(node.body)}

Declared(i) == UNION {DeclaredBy(n) : n \in Range(py_files[i].tree.body)}

\* The names a source reads: identifiers, attribute names, Name.attr pairs.
BareReads(i) ==
    LET t == py_files[i].tree
    IN t.names \cup {n.attr : n \in t.attrs}
       \cup {n.value \o <<".">> \o n.attr : n \in {m \in t.attrs : m.value # <<>>}}

Flagged(i, d) ==
    \E k \in 1..Len(dead) : dead[k] = DeadCodeItem(py_files[i].path, d.name, d.kind)

C2_PrivateDeadIffUnreadInOwnFile ==
    dc_pc = "done" =>
        \A i \in ParsedIdx : \A d \in Declared(i) :
            IsPrivateName(d.name) => (Flagged(i, d) <=> d.name \notin BareReads(i))

\* C3 as stated: a function, class or method whose declared name is a
\* reserved entrypoint name, dunder-style or test_-prefixed is never flagged.
C3_EntrypointNeverDead ==
    dc_pc = "done" =>
        \A i \in ParsedIdx : \A d \in Declared(i) :
            IsEntrypointName(d.own) => ~Flagged(i, d)

\* C4 as stated: one unreadable or unparsable file (syntax error, decode
\* error, permission denied) never aborts the pass.
C4_PassNeverAborts ==
    Cardinality({i \in 1..Len(py_files) : py_files[i].status # "ok"}) <= 1
        => dc_pc # "raised"

(***************************************************************************)
(* dependency_graph.py                                                     *)
(*                                                                         *)
(* A path is the sequence of its segments, the last one without ".py"; a   *)
(* dotted module name is the sequence of its components.                   *)
(***************************************************************************)
Seg_a == <<"a">>
Seg_b == <<"b">>
Seg_p_init == <<"p", "__init__">>

\* The project's files, in the order sorted() gives their paths.
SortedPaths == <<Seg_a, Seg_b, Seg_p_init>>

\* The external package names, in the order sorted() gives them.
SortedNames == <<"os">>

IndexIn(seq, x) == CHOOSE k \in 1..Len(seq) : seq[k] = x

\* sorted(S) for a set of paths, and for a set of package names.
RECURSIVE Sorted(_, _)
Sorted(S, universe) ==
    IF S = {} THEN <<>>
    ELSE LET m == CHOOSE x \in S :
                      \A y \in S : IndexIn(universe, x) <= IndexIn(universe, y)
         IN <<m>> \o Sorted(S \ {m}, universe)

\* The orders in which iterating a set (or a dict built from one) can yield it.
Orderings(S) ==
    {q \in [1..Cardinality(S) -> S] : \A x \in S : \E k \in DOMAIN q : q[k] = x}

\* rel.replace(os.sep, ".").removesuffix(".py"), then a trailing ".__init__" removed
ModuleOf(rel) ==
    IF Len(rel) > 1 /\ rel[Len(rel)] = "__init__" THEN SubSeq(rel, 1, Len(rel) - 1) ELSE rel

Get(dict, key, default) == IF key \in DOMAIN dict THEN dict[key] ELSE default

Put(dict, key, value) == [k \in DOMAIN dict \cup {key} |-> IF k = key THEN value ELSE dict[k]]

\* _build_module_map: later files overwrite earlier ones of the same module
RECURSIVE BuildModuleMap(_)
BuildModuleMap(files) ==
    IF files = <<>> THEN <<>>
    ELSE LET n == Len(files)
         IN Put(BuildModuleMap(SubSeq(files, 1, n - 1)), ModuleOf(files[n].path), files[n].path)

\* for i in range(len(parts), 0, -1): candidate = ".".join(parts[:i])
\* the length of the longest prefix of parts that is a project module, or 0
RECURSIVE Probe(_, _, _)
Probe(parts, i, mm) ==
    IF i = 0 THEN 0
    ELSE IF SubSeq(parts, 1, i) \in DOMAIN mm THEN i ELSE Probe(parts, i - 1, mm)

Maps(im, ib, ext) == [imports_map |-> im, imported_by_map |-> ib, external_deps |-> ext]

\* Mutant: the reverse edge is not recorded.
ResolveImportNoReverse(module_name, current_file, mm, maps) ==
    LET i == Probe(module_name, Len(module_name), mm)
    IN IF i > 0
       THEN LET target == mm[SubSeq(module_name, 1, i)]
            IN IF target # current_file
               THEN Maps(Put(maps.imports_map, current_file,
                             Get(maps.imports_map, current_file, {}) \cup {target}),
                         maps.imported_by_map, maps.external_deps)
               ELSE maps
       ELSE maps

\* _resolve_import
ResolveImport(module_name, current_file, mm, maps) ==
    LET i == Probe(module_name, Len(module_name), mm)
    IN IF i > 0
       THEN LET target == mm[SubSeq(module_name, 1, i)]
            IN IF target # current_file
               THEN Maps(Put(maps.imports_map, current_file,
                             Get(maps.imports_map, current_file, {}) \cup {target}),
                         Put(maps.imported_by_map, target,
                             Get(maps.imported_by_map, target, {}) \cup {current_file}),
                         maps.external_deps)
               ELSE maps
       ELSE Maps(maps.imports_map, maps.imported_by_map,
                 Put(maps.external_deps, current_file,
                     Get(maps.external_deps, current_file, {}) \cup {module_name[1]}))

\* for node in ast.walk(tree): ... _resolve_import(...) over the import nodes
RECURSIVE ResolveAll(_, _, _, _)
ResolveAll(names, current_file, mm, maps) ==
    IF names = <<>> THEN maps
    ELSE ResolveAll(Tail(names), current_file, mm,
                    ResolveImport(Head(names), current_file, mm, maps))

\* ---- the inputs ----
\* alias.name of `import x.y`, node.module of `from x.y import z`
ImportTargets ==
    { <<"a">>, <<"b">>, <<"p">>, <<"p", "q">>, <<"os", "path">> }

MaxImports == 2

ImportLists == {SetToSeq(T) : T \in BoundedSubsets(ImportTargets, MaxImports)}

GraphFileContents ==
    {[status |-> "ok", imports |-> l] : l \in ImportLists}
    \cup {[status |-> s, imports |-> <<>>] :
             s \in {"SyntaxError", "UnicodeDecodeError", "PermissionError"}}

GFile(p, c) == [path |-> p, status |-> c.status, imports |-> c.imports]

\* all_files = {os.path.relpath(f, project_dir) for f in py_files}
AllFiles == {g_files[k].path : k \in 1..Len(g_files)}

GraphStart ==
    /\ g_pc = "parse"
    /\ g_i = 1
    /\ module_map = BuildModuleMap(g_files)
    /\ imports_map = <<>>
    /\ imported_by_map = <<>>
    /\ external_deps = <<>>
    /\ in_degree = <<>>
    /\ dependents_map = <<>>
    /\ queue = <<>>
    /\ order = <<>>
    /\ idx = 0
    /\ graph = <<>>

GraphInit ==
    /\ DeadIdle
    /\ RiskIdle
    /\ ExecIdle
    /\ CompareIdle
    /\ OutputsIdle
    /\ ProbeIdle
    /\ ProjectIdle
    /\ \E c1 \in GraphFileContents, c2 \in GraphFileContents, c3 \in GraphFileContents :
           g_files = <<GFile(Seg_a, c1), GFile(Seg_b, c2), GFile(Seg_p_init, c3)>>
    /\ prev_order = <<>>
    /\ GraphStart

\* One iteration of `for fpath in py_files` on a file that parses.
GraphParse ==
    /\ g_pc = "parse"
    /\ g_i <= Len(g_files)
    /\ g_files[g_i].status = "ok"
    /\ LET f == g_files[g_i]
           m == ResolveAll(f.imports, f.path, module_map,
                           Maps(imports_map, imported_by_map, external_deps))
       IN /\ imports_map' = m.imports_map
          /\ imported_by_map' = m.imported_by_map
          /\ external_deps' = m.external_deps
    /\ g_i' = g_i + 1
    /\ UNCHANGED <<g_files, g_pc, module_map, in_degree, dependents_map, queue, order, idx,
                   graph, prev_order, notGraphVars>>

\* except (SyntaxError, UnicodeDecodeError): continue
GraphSkip ==
    /\ g_pc = "parse"
    /\ g_i <= Len(g_files)
    /\ g_files[g_i].status \in {"SyntaxError", "UnicodeDecodeError"}
    /\ g_i' = g_i + 1
    /\ UNCHANGED <<g_files, g_pc, module_map, imports_map, imported_by_map, external_deps,
                   in_degree, dependents_map, queue, order, idx, graph, prev_order,
                   notGraphVars>>

\* Any other exception of open()/read() is not caught: the build raises.
GraphRaise ==
    /\ g_pc = "parse"
    /\ g_i <= Len(g_files)
    /\ g_files[g_i].status \notin {"ok", "SyntaxError", "UnicodeDecodeError"}
    /\ g_pc' = "raised"
    /\ UNCHANGED <<g_files, g_i, module_map, imports_map, imported_by_map, external_deps,
                   in_degree, dependents_map, queue, order, idx, graph, prev_order,
                   notGraphVars>>

\* ---- _topological_sort ----
\* Mutant: counts the importers of f instead of its imports.
InDegreeOfImporters(files, im) ==
    [f \in files |-> Cardinality({g \in DOMAIN im : f \in im[g]})]

\* in_degree[f]: the imports of f that are project files
InDegree(files, im) ==
    [f \in files |-> Cardinality({dep \in Get(im, f, {}) : dep \in files})]

\* dependents_map[dep]: the files that import dep
DependentsMap(files, im) ==
    [dep \in files |-> {f \in DOMAIN im : dep \in im[f]}]

NoRank == -1

\* Mutant: the files left over all get the same next rank.
RankLeftoverSame(ord, left, i) ==
    [f \in DOMAIN ord \cup Range(left) |-> IF f \in DOMAIN ord THEN ord[f] ELSE i]

\* for f in sorted(circular_deps): order[f] = idx; idx += 1
RankLeftover(ord, left, i) ==
    [f \in DOMAIN ord \cup Range(left) |->
        IF f \in DOMAIN ord THEN ord[f] ELSE i + IndexIn(left, f) - 1]

\* circular_deps = {f for f in files if f not in order}
CircularDeps(files, ord) == {f \in files : f \notin DOMAIN ord}

\* Mutant: the membership test is inverted.
NodeCircularDepsInverted(rel_path, circular, im, ib) ==
    IF rel_path \notin circular
    THEN Sorted(circular \cap Get(im, rel_path, {}), SortedPaths)
    ELSE <<>>

\* sorted(circular_deps & imports_map.get(rel_path, set())) if rel_path in circular_deps else []
NodeCircularDeps(rel_path, circular, im, ib) ==
    IF rel_path \in circular
    THEN Sorted(circular \cap Get(im, rel_path, {}), SortedPaths)
    ELSE <<>>

DependencyNode(rel_path, im, ib, ext, ord, circular) ==
    [ file_path |-> rel_path,
      imports |-> Sorted(Get(im, rel_path, {}), SortedPaths),
      imported_by |-> Sorted(Get(ib, rel_path, {}), SortedPaths),
      external_deps |-> Sorted(Get(ext, rel_path, {}), SortedNames),
      migration_order |-> Get(ord, rel_path, NoRank),
      circular_deps |-> NodeCircularDeps(rel_path, circular, im, ib) ]

\* in_degree, dependents_map and the seeding of the deque, whose order is the
\* iteration order of the set all_files.
TopoSeed ==
    /\ g_pc = "parse"
    /\ g_i > Len(g_files)
    /\ in_degree' = InDegree(AllFiles, imports_map)
    /\ dependents_map' = DependentsMap(AllFiles, imports_map)
    /\ \E q \in Orderings({f \in AllFiles : InDegree(AllFiles, imports_map)[f] = 0}) :
           queue' = q
    /\ order' = <<>>
    /\ idx' = 0
    /\ g_pc' = "kahn"
    /\ UNCHANGED <<g_files, g_i, module_map, imports_map, imported_by_map, external_deps,
                   graph, prev_order, notGraphVars>>

\* One iteration of `while queue`; the dependents are visited in the
\* iteration order of the set dependents_map[node].
KahnPop ==
    /\ g_pc = "kahn"
    /\ queue # <<>>
    /\ LET node == Head(queue)
           deps == Get(dependents_map, node, {})
           deg == [f \in DOMAIN in_degree |->
                      IF f \in deps THEN in_degree[f] - 1 ELSE in_degree[f]]
       IN /\ order' = Put(order, node, idx)
          /\ idx' = idx + 1
          /\ in_degree' = deg
          /\ \E q \in Orderings({f \in deps : deg[f] = 0}) : queue' = Tail(queue) \o q
    /\ UNCHANGED <<g_files, g_pc, g_i, module_map, imports_map, imported_by_map,
                   external_deps, dependents_map, graph, prev_order, notGraphVars>>

\* The deque is empty: the files left over are ranked in sorted order, and
\* build_dependency_graph builds the DependencyNode of every file.
TopoFinish ==
    /\ g_pc = "kahn"
    /\ queue = <<>>
    /\ LET circular == CircularDeps(AllFiles, order)
           ord == RankLeftover(order, Sorted(circular, SortedPaths), idx)
       IN /\ order' = ord
          /\ idx' = idx + Cardinality(circular)
          /\ graph' = [f \in AllFiles |->
                          DependencyNode(f, imports_map, imported_by_map, external_deps,
                                         ord, circular)]
    /\ g_pc' = "done"
    /\ UNCHANGED <<g_files, g_i, module_map, imports_map, imported_by_map, external_deps,
                   in_degree, dependents_map, queue, prev_order, notGraphVars>>

\* analyze_project is called again on the unchanged project.
Reanalyze ==
    /\ g_pc = "done"
    /\ prev_order' = [f \in AllFiles |-> graph[f].migration_order]
    /\ g_pc' = "parse"
    /\ g_i' = 1
    /\ module_map' = BuildModuleMap(g_files)
    /\ imports_map' = <<>>
    /\ imported_by_map' = <<>>
    /\ external_deps' = <<>>
    /\ in_degree' = <<>>
    /\ dependents_map' = <<>>
    /\ queue' = <<>>
    /\ order' = <<>>
    /\ idx' = 0
    /\ graph' = <<>>
    /\ UNCHANGED <<g_files, notGraphVars>>

GraphNext ==
    GraphParse \/ GraphSkip \/ GraphRaise \/ TopoSeed \/ KahnPop \/ TopoFinish \/ Reanalyze

SpecGraph == GraphInit /\ [][GraphNext]_vars

\* get_migration_order: sorted by (migration_order or 9999, file_path)
MissingOrderKey == 9999

OrderKey(n) == IF n.migration_order # NoRank THEN n.migration_order ELSE MissingOrderKey

RECURSIVE SortNodes(_)
SortNodes(nodes) ==
    IF nodes = {} THEN <<>>
    ELSE LET m == CHOOSE x \in nodes : \A y \in nodes :
                      \/ OrderKey(x) < OrderKey(y)
                      \/ OrderKey(x) = OrderKey(y)
                         /\ IndexIn(SortedPaths, x.file_path) <= IndexIn(SortedPaths, y.file_path)
         IN <<m.file_path>> \o SortNodes(nodes \ {m})

get_migration_order(g) == SortNodes({g[f] : f \in DOMAIN g})

(***************************************************************************)
(* Properties of build_dependency_graph and get_migration_order            *)
(***************************************************************************)
Imports(A) == Range(graph[A].imports)

ImportedBy(A) == Range(graph[A].imported_by)

Rank(A) == graph[A].migration_order

\* The files reachable from A along one or more internal import edges.
RECURSIVE ReachIn(_, _)
ReachIn(S, n) ==
    IF n = 0 THEN S ELSE ReachIn(S \cup UNION {Imports(B) : B \in S}, n - 1)

Reach(A) == ReachIn(Imports(A), Cardinality(AllFiles))

Acyclic == \A A \in AllFiles : A \notin Reach(A)

PositionIn(seq, x) == CHOOSE k \in 1..Len(seq) : seq[k] = x

\* C5: in the returned graph B is in imports(A) exactly when A is in
\* imported_by(B), and no file is in its own imports or imported_by.
C5_EdgeSymmetry ==
    g_pc = "done" =>
        \A A \in AllFiles :
            /\ A \notin Imports(A) /\ A \notin ImportedBy(A)
            /\ \A B \in AllFiles : B \in Imports(A) <=> A \in ImportedBy(B)

\* C5 witness: a graph with an internal edge, built from a project in which
\* a.py also imports its own module.
C5_Witness ==
    /\ g_pc = "done"
    /\ g_files[1].status = "ok" /\ ModuleOf(g_files[1].path) \in Range(g_files[1].imports)
    /\ Imports(g_files[1].path) # {}

\* C6: when the internal import graph is acyclic, every imported file has a
\* strictly smaller rank than its importer and precedes it in
\* get_migration_order.
C6_ImportsRankedFirst ==
    (g_pc = "done" /\ Acyclic) =>
        \A A \in AllFiles : \A B \in Imports(A) :
            /\ Rank(B) < Rank(A)
            /\ PositionIn(get_migration_order(graph), B)
                   < PositionIn(get_migration_order(graph), A)

\* C6 witness: an acyclic graph with a chain of two import edges.
C6_Witness ==
    /\ g_pc = "done" /\ Acyclic
    /\ \E A \in AllFiles : \E B \in Imports(A) : Imports(B) # {}

\* C7: two files that import each other are in each other's circular_deps
\* and both have a migration_order.
C7_MutualImportsCircular ==
    g_pc = "done" =>
        \A X \in AllFiles : \A Y \in AllFiles \ {X} :
            (Y \in Get(imports_map, X, {}) /\ X \in Get(imports_map, Y, {})) =>
                /\ Y \in Range(graph[X].circular_deps)
                /\ X \in Range(graph[Y].circular_deps)
                /\ Rank(X) # NoRank /\ Rank(Y) # NoRank

\* C7 witness: a built graph with two files that import each other.
C7_Witness ==
    /\ g_pc = "done"
    /\ \E X \in AllFiles : \E Y \in AllFiles \ {X} :
           Y \in Get(imports_map, X, {}) /\ X \in Get(imports_map, Y, {})

\* C8: the sort never runs more than N iterations, and on its return every
\* file has exactly one rank, the ranks are pairwise distinct and are
\* exactly 0..N-1, and get_migration_order is a permutation of the files in
\* ascending rank.
C8_RanksAreAPermutation ==
    LET N == Cardinality(AllFiles)
        mo == get_migration_order(graph)
    IN /\ g_pc \in {"kahn", "done"} =>
              /\ idx <= N
              /\ idx = Cardinality(DOMAIN order)
              /\ \A k \in 1..Len(queue) : queue[k] \in AllFiles \ DOMAIN order
       /\ g_pc = "done" =>
              /\ DOMAIN order = AllFiles
              /\ {order[f] : f \in AllFiles} = 0..(N - 1)
              /\ \A f \in AllFiles : Rank(f) = order[f]
              /\ Len(mo) = N /\ Range(mo) = AllFiles
              /\ \A k \in 1..N : Rank(mo[k]) = k - 1

\* C8 witness: the sort returned for a graph with a cycle and a file outside it.
C8_Witness ==
    /\ g_pc = "done"
    /\ ~Acyclic
    /\ \E A \in AllFiles : A \notin Reach(A)

\* C9 as stated: a second analysis of the unchanged project gives every file
\* the rank the first analysis gave it, whatever the iteration orders were.
C9_SameRanksOnRerun ==
    (g_pc = "done" /\ prev_order # <<>>) =>
        \A f \in AllFiles : Rank(f) = prev_order[f]

\* The internal imports of A, from the parse on.
InternalImports(A) == Get(imports_map, A, {})

RECURSIVE ReachMapIn(_, _)
ReachMapIn(S, n) ==
    IF n = 0 THEN S ELSE ReachMapIn(S \cup UNION {InternalImports(B) : B \in S}, n - 1)

\* The files reachable from A along one or more internal import edges.
ReachMap(A) == ReachMapIn(InternalImports(A), Cardinality(AllFiles))

OnCycle(A) == A \in ReachMap(A)

\* Two files on one cycle: each is reachable from the other.
OnSameCycle(A, B) == B \in ReachMap(A) /\ A \in ReachMap(B)

\* The state in which `while queue` has ended and the leftover is not yet ranked.
QueueEmptied == g_pc = "kahn" /\ queue = <<>>

\* C24: every file still unranked when the deque empties lies on a cycle of
\* internal import edges, and in the returned graph a file that is on no
\* cycle has no circular_deps, even if it imports a file on a cycle.
C24_LeftoverOnCycle ==
    /\ QueueEmptied => \A f \in AllFiles \ DOMAIN order : OnCycle(f)
    /\ g_pc = "done" =>
           \A A \in AllFiles : ~OnCycle(A) => graph[A].circular_deps = <<>>

\* C25: the files left over get the ranks idx, idx+1, ... in sorted-path
\* order, and any two distinct files left over on the same import cycle, of
\* whatever length, are in each other's circular_deps.
C25_LeftoverRanksAndMutualDeps ==
    /\ [][QueueEmptied =>
             LET left == Sorted(AllFiles \ DOMAIN order, SortedPaths)
             IN /\ \A f \in DOMAIN order : order'[f] = order[f]
                /\ \A k \in 1..Len(left) : order'[left[k]] = idx + k - 1]_vars
    /\ [](g_pc = "done" =>
             \A X \in AllFiles : \A Y \in AllFiles \ {X} :
                 OnSameCycle(X, Y) =>
                     /\ Y \in Range(graph[X].circular_deps)
                     /\ X \in Range(graph[Y].circular_deps))

\* The files without an internal import, and the others.
Leaves == {f \in AllFiles : InternalImports(f) = {}}

\* C26: each dequeued file gets the rank idx, which starts at 0 and grows by
\* one with every dequeue, and every file without an internal import gets a
\* rank strictly smaller than every file with one.
C26_LeavesRankLowest ==
    /\ [][(g_pc = "kahn" /\ queue # <<>>) =>
             /\ idx = Cardinality(DOMAIN order)
             /\ order' = Put(order, Head(queue), idx)
             /\ idx' = idx + 1]_vars
    /\ [](g_pc \in {"kahn", "done"} =>
             /\ {order[f] : f \in DOMAIN order} = 0..(Cardinality(DOMAIN order) - 1)
             /\ \A f \in DOMAIN order \ Leaves : Leaves \subseteq DOMAIN order
             /\ \A f \in DOMAIN order \cap Leaves : \A g \in DOMAIN order \ Leaves :
                    order[f] < order[g])
    /\ [](g_pc = "done" =>
             \A f \in Leaves : \A g \in AllFiles \ Leaves : Rank(f) < Rank(g))

\* C26 witness: a built graph with two files without an internal import, of
\* which one was dequeued second, a file that imports one of them and was
\* dequeued after both.
C26_Witness ==
    /\ g_pc = "done"
    /\ Cardinality(Leaves) = 2
    /\ \E f \in Leaves : Rank(f) = 1
    /\ \E g \in AllFiles \ Leaves : Rank(g) = 2 /\ graph[g].circular_deps = <<>>

(***************************************************************************)
(* Python floats                                                           *)
(*                                                                         *)
(* A float is an IEEE-754 double.  Every value the risk assessor computes  *)
(* lies in [0, 4) and is a multiple of 2^-60, so a double x is held        *)
(* exactly as the integer x * 2^60, written in three limbs of 20 bits:     *)
(* x * 2^60 = h * 2^40 + m * 2^20 + l.  Each operation computes the exact  *)
(* result and rounds it to the 53-bit grid of its binade, ties to even.    *)
(***************************************************************************)
LimbBase == 1048576

Dbl(h, m, l) == [h |-> h, m |-> m, l |-> l]

\* Carry (or borrow) propagation.
Norm(h, m, l) ==
    LET l1 == l % LimbBase
        c1 == l \div LimbBase
        m1 == (m + c1) % LimbBase
        c2 == (m + c1) \div LimbBase
    IN Dbl(h + c2, m1, l1)

DZero == Dbl(0, 0, 0)

DLess(x, y) ==
    \/ x.h < y.h
    \/ x.h = y.h /\ x.m < y.m
    \/ x.h = y.h /\ x.m = y.m /\ x.l < y.l

DLeq(x, y) == ~DLess(y, x)

DMin(x, y) == IF DLess(y, x) THEN y ELSE x

\* The spacing of the doubles around x, in units of 2^-60: 2^(e+8) for x in
\* [2^e, 2^(e+1)).
Quantum(x) ==
    IF x.h >= 2 * LimbBase THEN 512
    ELSE IF x.h >= LimbBase THEN 256
    ELSE IF x.h >= LimbBase \div 2 THEN 128
    ELSE IF x.h >= LimbBase \div 4 THEN 64
    ELSE IF x.h >= LimbBase \div 8 THEN 32
    ELSE IF x.h >= LimbBase \div 16 THEN 16
    ELSE IF x.h >= LimbBase \div 32 THEN 8
    ELSE IF x.h >= LimbBase \div 64 THEN 4
    ELSE 2

\* Round the exact value x + sticky (0 <= sticky < 1 unit, given as zero or
\* not) to the nearest double, ties to even.
RoundSticky(x, sticky) ==
    LET q == Quantum(x)
        r == x.l % q
        half == q \div 2
        up == \/ r > half
              \/ r = half /\ sticky
              \/ r = half /\ ~sticky /\ (x.l \div q) % 2 = 1
    IN Norm(x.h, x.m, x.l - r + (IF up THEN q ELSE 0))

Round(x) == RoundSticky(x, FALSE)

\* x + y
DAdd(x, y) == Round(Norm(x.h + y.h, x.m + y.m, x.l + y.l))

\* x - y, for x >= y
DSub(x, y) == Round(Norm(x.h - y.h, x.m - y.m, x.l - y.l))

\* n * x, for an int n
DMulInt(n, x) == Round(Norm(n * x.h, n * x.m, n * x.l))

\* The float a decimal literal k/d denotes (d is 10, 100 or 1000).
FromDecimal(k, d) ==
    LET h0 == k * LimbBase
        qh == h0 \div d
        r1 == h0 % d
        qm == (r1 * LimbBase) \div d
        r2 == (r1 * LimbBase) % d
        ql == (r2 * LimbBase) \div d
        r3 == (r2 * LimbBase) % d
    IN RoundSticky(Dbl(qh, qm, ql), r3 # 0)

\* round(x, 3) for 0 <= x <= 1, as the integer n with round(x, 3) == n/1000:
\* the decimal nearest to the exact value of x, ties to even.
RoundMilli(x) ==
    LET p == Norm(1000 * x.h, 1000 * x.m, 1000 * x.l)
        whole == p.h \div LimbBase
        frac == Dbl(p.h % LimbBase, p.m, p.l)
        half == Dbl(LimbBase \div 2, 0, 0)
    IN IF DLess(half, frac) \/ (frac = half /\ whole % 2 = 1) THEN whole + 1 ELSE whole

Round3(x) == FromDecimal(RoundMilli(x), 1000)

(***************************************************************************)
(* risk_assessor.py                                                        *)
(***************************************************************************)
\* The float literals of risk_assessor.py, each the double nearest to the decimal.
F_0_05 == FromDecimal(5, 100)
F_0_08 == FromDecimal(8, 100)
F_0_1 == FromDecimal(1, 10)
F_0_12 == FromDecimal(12, 100)
F_0_15 == FromDecimal(15, 100)
F_0_2 == FromDecimal(2, 10)
F_0_3 == FromDecimal(3, 10)
F_0_35 == FromDecimal(35, 100)
F_0_45 == FromDecimal(45, 100)
F_0_6 == FromDecimal(6, 10)
F_0_7 == FromDecimal(7, 10)
F_1_0 == FromDecimal(1, 1)

\* len(PY2_HIGH_RISK_PATTERNS), len(PY2_SEMANTIC_RISK_PATTERNS), len(PY2_POSITIVE_PATTERNS)
NumPy2Patterns == 15
NumSemanticPatterns == 8
NumPositivePatterns == 1

\* _scan_patterns: the patterns re.search finds in the source, in catalogue order
RECURSIVE ScanFrom(_, _, _)
ScanFrom(matches, k, n) ==
    IF k > n THEN <<>>
    ELSE (IF k \in matches THEN <<k>> ELSE <<>>) \o ScanFrom(matches, k + 1, n)

ScanPatterns(matches, n) == ScanFrom(matches, 1, n)

RECURSIVE Tagged(_, _)
Tagged(tag, hits) ==
    IF hits = <<>> THEN <<>> ELSE <<<<tag, Head(hits)>>>> \o Tagged(tag, Tail(hits))

\* _check_dynamic_features: one node of ast.walk(tree), acc = [score, factors]
DynamicStep(acc, id) ==
    IF id = "eval"
    THEN [score |-> DAdd(acc.score, F_0_15),
          factors |-> Append(acc.factors, <<"Uses eval()">>)]
    ELSE IF id = "exec"
    THEN [score |-> DAdd(acc.score, F_0_15),
          factors |-> Append(acc.factors, <<"Uses exec()">>)]
    ELSE IF id \in {"getattr", "setattr", "delattr"}
    THEN IF acc.factors = <<>>
            \/ acc.factors[Len(acc.factors)] # <<"Uses dynamic attribute access">>
         THEN [score |-> DAdd(acc.score, F_0_05),
               factors |-> Append(acc.factors, <<"Uses dynamic attribute access">>)]
         ELSE acc
    ELSE IF id = "__import__"
    THEN [score |-> DAdd(acc.score, F_0_1),
          factors |-> Append(acc.factors, <<"Uses __import__() (dynamic imports)">>)]
    ELSE acc

RECURSIVE DynamicWalk(_, _)
DynamicWalk(acc, names) ==
    IF names = <<>> THEN acc ELSE DynamicWalk(DynamicStep(acc, Head(names)), Tail(names))

CheckDynamicFeatures(names) ==
    LET r == DynamicWalk([score |-> DZero, factors |-> <<>>], names)
    IN [score |-> DMin(r.score, F_0_3), factors |-> r.factors]

\* str operations of _has_test_file
RECURSIVE LastIndexOf(_, _)
LastIndexOf(str, ch) ==
    IF str = <<>> THEN 0
    ELSE IF str[Len(str)] = ch THEN Len(str)
    ELSE LastIndexOf(SubSeq(str, 1, Len(str) - 1), ch)

Basename(path) == SubSeq(path, LastIndexOf(path, "/") + 1, Len(path))

\* os.path.splitext(name)[0]
Stem(name) ==
    LET k == LastIndexOf(name, ".") IN IF k > 1 THEN SubSeq(name, 1, k - 1) ELSE name

\* sub in str
Contains(str, sub) ==
    \E k \in 0..(Len(str) - Len(sub)) : SubSeq(str, k + 1, k + Len(sub)) = sub

Str_test_ == <<"t", "e", "s", "t", "_">>
Str_py == <<".", "p", "y">>

HasTestFile(file_path, keys) ==
    LET base == Stem(Basename(file_path))
        test_names == { Str_test_ \o base \o Str_py,
                        base \o <<"_", "t", "e", "s", "t">> \o Str_py,
                        <<"t", "e", "s", "t", "s", "/">> \o Str_test_ \o base \o Str_py }
    IN \E key \in keys : \E tn \in test_names : Contains(key, tn)

\* _score_to_level
ScoreToLevel(score) ==
    IF DLeq(F_0_7, score) THEN "critical"
    ELSE IF DLeq(F_0_45, score) THEN "high"
    ELSE IF DLeq(F_0_2, score) THEN "medium"
    ELSE "low"

\* _score_to_tier
ScoreToTier(score) ==
    IF DLeq(F_0_7, score) THEN "tier_4_manual_only"
    ELSE IF DLeq(F_0_45, score) THEN "tier_3_review_required"
    ELSE IF DLeq(F_0_2, score) THEN "tier_2_spot_check"
    ELSE "tier_1_auto_apply"

LargeFileLines == 1000
MediumFileLines == 500
HighFanOut == 5
ModerateFanOut == 2

\* Factor 1: Python 2 patterns (lines 74-76)
AddPy2(acc, py2_hits) ==
    IF py2_hits = <<>> THEN acc
    ELSE [score |-> DAdd(acc.score, DMin(DMulInt(Len(py2_hits), F_0_08), F_0_3)),
          factors |-> acc.factors \o Tagged("Py2 pattern", py2_hits)]

\* lines 77-79
AddSemantic(acc, semantic_hits) ==
    IF semantic_hits = <<>> THEN acc
    ELSE [score |-> DAdd(acc.score, DMin(DMulInt(Len(semantic_hits), F_0_12), F_0_35)),
          factors |-> acc.factors \o Tagged("Semantic risk", semantic_hits)]

\* lines 80-82: score = max(score - 0.05, 0.0)
AddPositive(acc, positive_hits) ==
    IF positive_hits = <<>> THEN acc
    ELSE [score |-> IF DLess(acc.score, F_0_05) THEN DZero ELSE DSub(acc.score, F_0_05),
          factors |-> acc.factors \o Tagged("Positive signal", positive_hits)]

\* Factor 2: file size
AddSize(acc, lines) ==
    IF lines > LargeFileLines
    THEN [score |-> DAdd(acc.score, F_0_1),
          factors |-> Append(acc.factors, <<"Large file", lines>>)]
    ELSE IF lines > MediumFileLines
    THEN [score |-> DAdd(acc.score, F_0_05), factors |-> acc.factors]
    ELSE acc

\* Mutant: the moderate band starts at 2 importers instead of above 2.
AddFanOutInclusive(acc, fan_out) ==
    IF fan_out > HighFanOut
    THEN [score |-> DAdd(acc.score, F_0_15),
          factors |-> Append(acc.factors, <<"High dependency fan-out", fan_out>>)]
    ELSE IF fan_out >= ModerateFanOut
    THEN [score |-> DAdd(acc.score, F_0_05),
          factors |-> Append(acc.factors, <<"Moderate dependency fan-out", fan_out>>)]
    ELSE acc

\* Factor 3: dependency fan-out
AddFanOut(acc, fan_out) ==
    IF fan_out > HighFanOut
    THEN [score |-> DAdd(acc.score, F_0_15),
          factors |-> Append(acc.factors, <<"High dependency fan-out", fan_out>>)]
    ELSE IF fan_out > ModerateFanOut
    THEN [score |-> DAdd(acc.score, F_0_05),
          factors |-> Append(acc.factors, <<"Moderate dependency fan-out", fan_out>>)]
    ELSE acc

\* Factor 4: dynamic features, or the SyntaxError of ast.parse
AddDynamic(acc, src) ==
    IF src.parses
    THEN [score |-> DAdd(acc.score, CheckDynamicFeatures(src.names).score),
          factors |-> acc.factors \o CheckDynamicFeatures(src.names).factors]
    ELSE [score |-> DAdd(acc.score, F_0_2),
          factors |-> Append(acc.factors, <<"File has syntax errors (cannot parse AST)">>)]

\* Factor 5: test coverage signal
AddCoverage(acc, has_tests) ==
    IF has_tests THEN acc
    ELSE [score |-> DAdd(acc.score, F_0_1),
          factors |-> Append(acc.factors, <<"No corresponding test file found">>)]

\* Clamp and classify (lines 118-133); score is the clamped score
Classify(rel_path, score, factors, semantic_hits, has_tests) ==
    [ file_path |-> rel_path,
      risk_level |-> ScoreToLevel(score),
      risk_score |-> Round3(score),
      factors |-> factors,
      test_coverage_estimate |-> IF has_tests THEN "has_tests" ELSE "no_tests_found",
      semantic_complexity |->
          IF semantic_hits # <<>> \/ DLess(F_0_6, score) THEN "high"
          ELSE IF DLess(F_0_3, score) THEN "medium" ELSE "low",
      recommended_tier |-> ScoreToTier(score) ]

\* the sum of the five factors, before the clamp
Factors(node, src, has_tests) ==
    AddCoverage(
      AddDynamic(
        AddFanOut(
          AddSize(
            AddPositive(
              AddSemantic(
                AddPy2([score |-> DZero, factors |-> <<>>],
                       ScanPatterns(src.py2, NumPy2Patterns)),
                ScanPatterns(src.semantic, NumSemanticPatterns)),
              ScanPatterns(src.positive, NumPositivePatterns)),
            src.lines),
          Len(node.imported_by)),
        src),
      has_tests)

ClassifySum(rel_path, sum, src, has_tests) ==
    Classify(rel_path, DMin(sum.score, F_1_0), sum.factors,
             ScanPatterns(src.semantic, NumSemanticPatterns), has_tests)

\* The body of the loop of assess_risks for one file whose text was read.
Assess(rel_path, node, src, keys) ==
    ClassifySum(rel_path, Factors(node, src, HasTestFile(rel_path, keys)), src,
                HasTestFile(rel_path, keys))

\* results.sort(key=lambda r: r.risk_score): a stable sort
RECURSIVE InsertSorted(_, _)
InsertSorted(sorted, r) ==
    IF sorted = <<>> THEN <<r>>
    ELSE IF DLess(r.risk_score, sorted[Len(sorted)].risk_score)
    THEN Append(InsertSorted(SubSeq(sorted, 1, Len(sorted) - 1), r), sorted[Len(sorted)])
    ELSE Append(sorted, r)

RECURSIVE StableSort(_)
StableSort(list) ==
    IF list = <<>> THEN <<>>
    ELSE InsertSorted(StableSort(SubSeq(list, 1, Len(list) - 1)), list[Len(list)])

(***************************************************************************)
(* Inputs of assess_risks: one subject file, the files that import it and, *)
(* optionally, its test file.                                              *)
(***************************************************************************)
MaxPy2Hits == 4
MaxSemanticHits == 3

\* numbers of importing files on either side of the two fan-out thresholds
FanOuts == {0, ModerateFanOut, ModerateFanOut + 1, HighFanOut, HighFanOut + 1}

Path_s == <<"s", ".", "p", "y">>
Path_test_s == Str_test_ \o Path_s
Digits == <<"1", "2", "3", "4", "5", "6", "7", "8", "9">>
Importer(k) == <<"i", Digits[k]>> \o Str_py

\* the ast.Name ids met by ast.walk, in walk order
DynamicWalks ==
    { <<>>, <<"print">>, <<"eval">>, <<"getattr", "setattr">>, <<"__import__">>,
      <<"exec", "eval">>, <<"getattr", "eval", "delattr">>, <<"eval", "exec", "eval">> }

\* line counts on either side of the two size thresholds
LineCounts == {MediumFileLines, MediumFileLines + 1, LargeFileLines + 1}

ReadableSources ==
    { [status |-> "ok", py2 |-> 1..n, semantic |-> 1..m, positive |-> pos,
       lines |-> lc, parses |-> TRUE, names |-> w] :
        n \in 0..MaxPy2Hits, m \in 0..MaxSemanticHits, pos \in {{}, {1}},
        lc \in LineCounts, w \in DynamicWalks }
    \cup
    { [status |-> "ok", py2 |-> 1..n, semantic |-> 1..m, positive |-> pos,
       lines |-> lc, parses |-> FALSE, names |-> <<>>] :
        n \in 0..MaxPy2Hits, m \in 0..MaxSemanticHits, pos \in {{}, {1}},
        lc \in LineCounts }

UnreadableSources ==
    { [status |-> st, py2 |-> {}, semantic |-> {}, positive |-> {},
       lines |-> 1, parses |-> TRUE, names |-> <<>>] :
        st \in {"FileNotFoundError", "UnicodeDecodeError", "PermissionError"} }

PlainSource ==
    [status |-> "ok", py2 |-> {}, semantic |-> {}, positive |-> {},
     lines |-> 1, parses |-> TRUE, names |-> <<>>]

RiskNode(path, imported_by) == [file_path |-> path, imported_by |-> imported_by]

Reverse(seq) == [k \in 1..Len(seq) |-> seq[Len(seq) + 1 - k]]

\* the graph of a subject imported by n files, with or without a test file
RiskGraph(n, with_test) ==
    <<RiskNode(Path_s, [k \in 1..n |-> Importer(k)])>>
    \o [k \in 1..n |-> RiskNode(Importer(k), <<>>)]
    \o (IF with_test THEN <<RiskNode(Path_test_s, <<>>)>> ELSE <<>>)

Keys(g) == { g[k].file_path : k \in 1..Len(g) }

RiskInit ==
    /\ DeadIdle
    /\ GraphIdle
    /\ ExecIdle
    /\ CompareIdle
    /\ OutputsIdle
    /\ ProbeIdle
    /\ ProjectIdle
    /\ \E n \in FanOuts, with_test \in BOOLEAN, rev \in BOOLEAN :
         dep_graph = IF rev THEN Reverse(RiskGraph(n, with_test)) ELSE RiskGraph(n, with_test)
    /\ \E src \in ReadableSources \cup UnreadableSources :
         sources = [p \in Keys(dep_graph) |-> IF p = Path_s THEN src ELSE PlainSource]
    /\ r_pc = "loop"
    /\ r_i = 1
    /\ results = <<>>
    /\ prev_results = <<>>

\* one iteration of the loop: the file is read and assessed
AssessFile ==
    /\ r_pc = "loop"
    /\ r_i <= Len(dep_graph)
    /\ LET node == dep_graph[r_i] IN
         /\ sources[node.file_path].status = "ok"
         /\ results' = Append(results,
                Assess(node.file_path, node, sources[node.file_path], Keys(dep_graph)))
    /\ r_i' = r_i + 1
    /\ UNCHANGED <<dep_graph, sources, r_pc, prev_results, notRiskVars>>

\* open() or read() raises one of the two caught exceptions: continue
AssessSkip ==
    /\ r_pc = "loop"
    /\ r_i <= Len(dep_graph)
    /\ sources[dep_graph[r_i].file_path].status \in {"FileNotFoundError", "UnicodeDecodeError"}
    /\ r_i' = r_i + 1
    /\ UNCHANGED <<dep_graph, sources, r_pc, results, prev_results, notRiskVars>>

\* open() raises anything else: the exception leaves assess_risks
AssessRaise ==
    /\ r_pc = "loop"
    /\ r_i <= Len(dep_graph)
    /\ sources[dep_graph[r_i].file_path].status
         \notin {"ok", "FileNotFoundError", "UnicodeDecodeError"}
    /\ r_pc' = "raised"
    /\ UNCHANGED <<dep_graph, sources, r_i, results, prev_results, notRiskVars>>

\* the loop is over: sort and return
AssessReturn ==
    /\ r_pc = "loop"
    /\ r_i > Len(dep_graph)
    /\ results' = StableSort(results)
    /\ r_pc' = "done"
    /\ UNCHANGED <<dep_graph, sources, r_i, prev_results, notRiskVars>>

\* analyze_project is called again on the unchanged project: the sources are
\* the same, and build_dependency_graph fills the dict again, by iterating the
\* set all_files (dependency_graph.py:51,64), whose order is that of the
\* hashes of the paths in the process that runs it.
Reassess ==
    /\ r_pc = "done"
    /\ prev_results = <<>>
    /\ results # <<>>
    /\ prev_results' = results
    /\ \E rev \in BOOLEAN : dep_graph' = IF rev THEN Reverse(dep_graph) ELSE dep_graph
    /\ r_pc' = "loop"
    /\ r_i' = 1
    /\ results' = <<>>
    /\ UNCHANGED <<sources, notRiskVars>>

RiskNext == AssessFile \/ AssessSkip \/ AssessRaise \/ AssessReturn \/ Reassess

SpecRisk == RiskInit /\ [][RiskNext]_vars

(***************************************************************************)
(* Properties of the risk assessment                                       *)
(***************************************************************************)
Assessments == { results[k] : k \in 1..Len(results) }

InBand(r, lo, hi) == DLeq(lo, r.risk_score) /\ DLess(r.risk_score, hi)

\* C10: for every assessed file the reported score lies in [0,1] and the
\* (risk level, recommended tier) pair is (critical, manual) iff score >= 0.7,
\* (high, review) iff 0.45 <= score < 0.7, (medium, spot check) iff
\* 0.2 <= score < 0.45, (low, auto) iff score < 0.2.
C10_LevelAndTierFollowScore ==
    \A r \in Assessments :
        /\ DLeq(DZero, r.risk_score) /\ DLeq(r.risk_score, F_1_0)
        /\ (r.risk_level = "critical" /\ r.recommended_tier = "tier_4_manual_only")
             <=> DLeq(F_0_7, r.risk_score)
        /\ (r.risk_level = "high" /\ r.recommended_tier = "tier_3_review_required")
             <=> InBand(r, F_0_45, F_0_7)
        /\ (r.risk_level = "medium" /\ r.recommended_tier = "tier_2_spot_check")
             <=> InBand(r, F_0_2, F_0_45)
        /\ (r.risk_level = "low" /\ r.recommended_tier = "tier_1_auto_apply")
             <=> DLess(r.risk_score, F_0_2)

\* The score and the factors of a file before and after Factor 3.
BeforeFanOut(src) ==
    AddSize(
      AddPositive(
        AddSemantic(
          AddPy2([score |-> DZero, factors |-> <<>>],
                 ScanPatterns(src.py2, NumPy2Patterns)),
          ScanPatterns(src.semantic, NumSemanticPatterns)),
        ScanPatterns(src.positive, NumPositivePatterns)),
      src.lines)

AfterFanOut(node, src) == AddFanOut(BeforeFanOut(src), Len(node.imported_by))

\* the files that import the file of a node
ImportersOf(node) == { node.imported_by[k] : k \in 1..Len(node.imported_by) }

\* the items of dep_graph the loop has assessed so far
AssessedItems ==
    { k \in 1..Len(dep_graph) : k < r_i /\ sources[dep_graph[k].file_path].status = "ok" }

\* C11 as stated: the fan-out signal of a file is computed from the number of
\* distinct files importing it; it adds 0.15 to the score when that number is
\* greater than 5, 0.05 when it is between 2 and 5 inclusive, and nothing
\* otherwise.
C11_FanOutSignal ==
    \A k \in AssessedItems :
        LET node == dep_graph[k]
            src == sources[node.file_path]
            n == Cardinality(ImportersOf(node))
        IN AfterFanOut(node, src).score =
             IF n > 5 THEN DAdd(BeforeFanOut(src).score, F_0_15)
             ELSE IF n >= 2 /\ n <= 5 THEN DAdd(BeforeFanOut(src).score, F_0_05)
             ELSE BeforeFanOut(src).score

\* C11 amended: the fan-out signal adds 0.15 when the number of distinct
\* importing files is greater than 5, 0.05 when it is between 3 and 5
\* inclusive, and nothing when it is 2 or less.
C11_FanOutSignalAbove2 ==
    \A k \in AssessedItems :
        LET node == dep_graph[k]
            src == sources[node.file_path]
            n == Cardinality(ImportersOf(node))
        IN AfterFanOut(node, src).score =
             IF n > 5 THEN DAdd(BeforeFanOut(src).score, F_0_15)
             ELSE IF n >= 3 /\ n <= 5 THEN DAdd(BeforeFanOut(src).score, F_0_05)
             ELSE BeforeFanOut(src).score

\* A file imported by exactly 2 files has been assessed and got no fan-out
\* contribution, and a file imported by 3 files got one.
C11_Witness ==
    /\ r_pc = "done"
    /\ \E k \in AssessedItems :
         /\ Cardinality(ImportersOf(dep_graph[k])) \in {2, 3}
         /\ (Cardinality(ImportersOf(dep_graph[k])) = 2) =>
              AfterFanOut(dep_graph[k], sources[dep_graph[k].file_path])
                = BeforeFanOut(sources[dep_graph[k].file_path])
         /\ (Cardinality(ImportersOf(dep_graph[k])) = 3) =>
              AfterFanOut(dep_graph[k], sources[dep_graph[k].file_path])
                # BeforeFanOut(sources[dep_graph[k].file_path])
         /\ \E r \in Assessments : r.file_path = dep_graph[k].file_path

\* the result of a file in a result list
ResultOf(list, path) ==
    { [score |-> list[k].risk_score, factors |-> list[k].factors] :
        k \in { j \in 1..Len(list) : list[j].file_path = path } }

\* C12: for identical source texts and an identical dependency graph,
\* assess_risks yields for every file the same score and the same ordered
\* factor list, and the same result sequence, sorted ascending by score,
\* including the relative order of files with equal scores.
C12_SameResultsOnRerun ==
    (r_pc = "done" /\ prev_results # <<>>) =>
        /\ \A p \in Keys(dep_graph) : ResultOf(results, p) = ResultOf(prev_results, p)
        /\ \A k \in 1..(Len(results) - 1) :
               DLeq(results[k].risk_score, results[k + 1].risk_score)
        /\ results = prev_results

(***************************************************************************)
(* code_executor.py                                                        *)
(*                                                                         *)
(* A byte is "a" (an ASCII byte), "H" (the first byte of a two-byte UTF-8  *)
(* character) or "T" (a continuation byte).  A decoded character is "a",   *)
(* "e'" (the two-byte character) or "U+FFFD" (the replacement character).  *)
(***************************************************************************)
\* bytes.decode("utf-8", errors="replace")
RECURSIVE Decode(_)
Decode(bytes) ==
    IF bytes = <<>> THEN <<>>
    ELSE IF Head(bytes) = "a" THEN <<"a">> \o Decode(Tail(bytes))
    ELSE IF Head(bytes) = "H" /\ Len(bytes) >= 2 /\ bytes[2] = "T"
    THEN <<"e'">> \o Decode(Tail(Tail(bytes)))
    ELSE <<"U+FFFD">> \o Decode(Tail(bytes))

\* bytes[:max_output]
Slice(bytes, max_output) ==
    SubSeq(bytes, 1, IF Len(bytes) < max_output THEN Len(bytes) ELSE max_output)

\* lines 176-181, for one stream
Truncate(bytes, max_output) ==
    IF Len(bytes) > max_output THEN Slice(bytes, max_output) ELSE bytes

\* the seconds of the drain (line 144)
DrainBound == 2

SIGKILL == 9

\* Mutant: a result with exit code 0 is never reported as timed out.
ExecutionResultOfExitCode(exit_code, stdout, stderr, elapsed, timed_out, truncated) ==
    [ exit_code |-> exit_code, stdout |-> stdout, stderr |-> stderr,
      execution_time |-> elapsed, timed_out |-> timed_out /\ exit_code # Some(0),
      truncated |-> truncated ]

\* ExecutionResult(...), lines 154-161, 164-171 and 186-193; the elapsed time
\* is kept in seconds
ExecutionResult(exit_code, stdout, stderr, elapsed, timed_out, truncated) ==
    [ exit_code |-> exit_code, stdout |-> stdout, stderr |-> stderr,
      execution_time |-> elapsed, timed_out |-> timed_out, truncated |-> truncated ]

\* the locals of execute_python before the try (lines 104-110)
ExecLocals(start) ==
    [ timed_out |-> FALSE, truncated |-> FALSE, stdout_bytes |-> <<>>,
      stderr_bytes |-> <<>>, exit_code |-> None, start |-> start,
      deadline |-> start, killpg |-> FALSE, running_at_expiry |-> FALSE ]

\* the child that create_subprocess_exec has started: it has written its
\* output, and has forked the descendant its script asks for, which inherits
\* the pipes and is in the child's process group ("group") or in a session of
\* its own ("session")
Child(script) ==
    [ state |-> "running", status |-> None, returncode |-> None,
      descendant |-> script.descendant,
      descendant_alive |-> script.descendant # "none" ]

\* some process still holds the write end of the pipes
PipesOpen(x) == proc[x].state = "running" \/ proc[x].descendant_alive

\* create_subprocess_exec returns a process (lines 113-123); wait_for starts
ExecSpawn(x) ==
    /\ ex_pc[x] = "start"
    /\ ex_args[x].spawn = "ok"
    /\ proc' = [proc EXCEPT ![x] = Child(ex_args[x].script)]
    /\ pipe' = [pipe EXCEPT ![x] = [out |-> ex_args[x].script.out,
                                    err |-> ex_args[x].script.err]]
    /\ ex' = [ex EXCEPT ![x] = [ExecLocals(now) EXCEPT !.deadline = now + ex_args[x].timeout]]
    /\ ex_pc' = [ex_pc EXCEPT ![x] = "wait"]
    /\ UNCHANGED <<ex_args, ex_result, now, notExecVars>>

\* except FileNotFoundError (lines 152-161)
ExecSpawnNotFound(x) ==
    /\ ex_pc[x] = "start"
    /\ ex_args[x].spawn = "FileNotFoundError"
    /\ ex' = [ex EXCEPT ![x] = ExecLocals(now)]
    /\ ex_result' = [ex_result EXCEPT ![x] =
           Some(ExecutionResult(None, <<>>, <<"Interpreter not found">>, 0, FALSE, FALSE))]
    /\ ex_pc' = [ex_pc EXCEPT ![x] = "returned"]
    /\ UNCHANGED <<ex_args, proc, pipe, now, notExecVars>>

\* except OSError (lines 162-171)
ExecSpawnOSError(x) ==
    /\ ex_pc[x] = "start"
    /\ ex_args[x].spawn = "OSError"
    /\ ex' = [ex EXCEPT ![x] = ExecLocals(now)]
    /\ ex_result' = [ex_result EXCEPT ![x] =
           Some(ExecutionResult(None, <<>>, <<"Failed to start process">>, 0, FALSE, FALSE))]
    /\ ex_pc' = [ex_pc EXCEPT ![x] = "returned"]
    /\ UNCHANGED <<ex_args, proc, pipe, now, notExecVars>>

\* _set_limits raises in the child (resource.setrlimit, lines 42 and 47):
\* Popen raises subprocess.SubprocessError, which no except clause names
ExecSpawnRaise(x) ==
    /\ ex_pc[x] = "start"
    /\ ex_args[x].spawn = "SubprocessError"
    /\ ex' = [ex EXCEPT ![x] = ExecLocals(now)]
    /\ ex_pc' = [ex_pc EXCEPT ![x] = "raised"]
    /\ UNCHANGED <<ex_args, proc, pipe, ex_result, now, notExecVars>>

\* the child exits by itself, or the kernel kills it at a resource limit
ChildExit(x) ==
    /\ ex_pc[x] \in {"wait", "expired", "drain"}
    /\ proc[x].state = "running"
    /\ ex_args[x].script.exit # None
    /\ proc' = [proc EXCEPT ![x].state = "zombie", ![x].status = ex_args[x].script.exit]
    /\ UNCHANGED <<ex_args, ex_pc, pipe, ex, ex_result, now, notExecVars>>

\* the child watcher of the event loop reaps the child: proc.returncode is set
ChildReap(x) ==
    /\ ex_pc[x] \in {"wait", "expired", "drain"}
    /\ proc[x].state = "zombie"
    /\ proc' = [proc EXCEPT ![x].state = "reaped", ![x].returncode = proc[x].status]
    /\ UNCHANGED <<ex_args, ex_pc, pipe, ex, ex_result, now, notExecVars>>

\* proc.communicate() returns within the timeout (lines 126-130)
ExecComplete(x) ==
    /\ ex_pc[x] = "wait"
    /\ ~PipesOpen(x)
    /\ proc[x].state = "reaped"
    /\ ex' = [ex EXCEPT ![x].stdout_bytes = pipe[x].out, ![x].stderr_bytes = pipe[x].err,
                        ![x].exit_code = proc[x].returncode]
    /\ pipe' = [pipe EXCEPT ![x] = [out |-> <<>>, err |-> <<>>]]
    /\ ex_pc' = [ex_pc EXCEPT ![x] = "finish"]
    /\ UNCHANGED <<ex_args, proc, ex_result, now, notExecVars>>

\* the timer of wait_for fires: communicate() is cancelled, and the bytes its
\* readers had already taken from a stream are lost with it
ExecExpire(x) ==
    /\ ex_pc[x] = "wait"
    /\ now >= ex[x].deadline
    /\ \E lost_out \in BOOLEAN, lost_err \in BOOLEAN :
         pipe' = [pipe EXCEPT ![x] = [out |-> IF lost_out THEN <<>> ELSE pipe[x].out,
                                      err |-> IF lost_err THEN <<>> ELSE pipe[x].err]]
    /\ ex' = [ex EXCEPT ![x].running_at_expiry = (proc[x].state = "running")]
    /\ ex_pc' = [ex_pc EXCEPT ![x] = "expired"]
    /\ UNCHANGED <<ex_args, proc, ex_result, now, notExecVars>>

\* except asyncio.TimeoutError (lines 131-139): os.getpgid raises
\* ProcessLookupError when the child has been reaped, else the group is killed
ExecKill(x) ==
    /\ ex_pc[x] = "expired"
    /\ IF proc[x].state \in {"running", "zombie"}
       THEN /\ proc' = [proc EXCEPT
                  ![x].state = "zombie",
                  ![x].status = IF proc[x].state = "running" THEN Some(-SIGKILL)
                                ELSE proc[x].status,
                  ![x].descendant_alive =
                      proc[x].descendant_alive /\ proc[x].descendant # "group"]
            /\ ex' = [ex EXCEPT ![x].timed_out = TRUE, ![x].killpg = TRUE,
                                ![x].deadline = now + DrainBound]
       ELSE /\ proc' = proc
            /\ ex' = [ex EXCEPT ![x].timed_out = TRUE, ![x].deadline = now + DrainBound]
    /\ ex_pc' = [ex_pc EXCEPT ![x] = "drain"]
    /\ UNCHANGED <<ex_args, pipe, ex_result, now, notExecVars>>

\* the drain returns (lines 142-145, 150)
ExecDrain(x) ==
    /\ ex_pc[x] = "drain"
    /\ ~PipesOpen(x)
    /\ proc[x].state = "reaped"
    /\ ex' = [ex EXCEPT ![x].stdout_bytes = pipe[x].out, ![x].stderr_bytes = pipe[x].err,
                        ![x].exit_code = proc[x].returncode]
    /\ pipe' = [pipe EXCEPT ![x] = [out |-> <<>>, err |-> <<>>]]
    /\ ex_pc' = [ex_pc EXCEPT ![x] = "finish"]
    /\ UNCHANGED <<ex_args, proc, ex_result, now, notExecVars>>

\* the drain times out (lines 146-150)
ExecDrainTimeout(x) ==
    /\ ex_pc[x] = "drain"
    /\ now >= ex[x].deadline
    /\ ex' = [ex EXCEPT ![x].stdout_bytes = <<>>, ![x].stderr_bytes = <<>>,
                        ![x].exit_code = proc[x].returncode]
    /\ ex_pc' = [ex_pc EXCEPT ![x] = "finish"]
    /\ UNCHANGED <<ex_args, proc, pipe, ex_result, now, notExecVars>>

\* lines 173-193
ExecReturn(x) ==
    /\ ex_pc[x] = "finish"
    /\ LET max_output == ex_args[x].max_output
           truncated == \/ Len(ex[x].stdout_bytes) > max_output
                        \/ Len(ex[x].stderr_bytes) > max_output
           stdout_bytes == Truncate(ex[x].stdout_bytes, max_output)
           stderr_bytes == Truncate(ex[x].stderr_bytes, max_output)
       IN /\ ex' = [ex EXCEPT ![x].truncated = truncated,
                              ![x].stdout_bytes = stdout_bytes,
                              ![x].stderr_bytes = stderr_bytes]
          /\ ex_result' = [ex_result EXCEPT ![x] =
                 Some(ExecutionResult(ex[x].exit_code, Decode(stdout_bytes),
                                      Decode(stderr_bytes), now - ex[x].start,
                                      ex[x].timed_out, truncated))]
    /\ ex_pc' = [ex_pc EXCEPT ![x] = "returned"]
    /\ UNCHANGED <<ex_args, proc, pipe, now, notExecVars>>

\* a coroutine that is neither suspended nor over
Busy(x) == ex_pc[x] \in {"start", "expired", "finish"}

\* a coroutine suspended in wait_for whose timer is not due
Suspended(x) == ex_pc[x] \in {"wait", "drain"} /\ now < ex[x].deadline

MaxClock == 5

\* run_and_compare has a step to take: it is between two awaits, or the
\* gather it awaits is over (both coroutines have returned, or one has raised)
RcBusy ==
    \/ rc_pc \notin {"idle", "await", "returned", "raised"}
    \/ /\ rc_pc = "await"
       /\ \/ \A x \in Runs : ex_pc[x] = "returned"
          \/ \E x \in Runs : ex_pc[x] = "raised"

\* a second goes by while every coroutine is suspended or over
ClockTick ==
    /\ now < MaxClock
    /\ ~RcBusy
    /\ \E x \in Runs : Suspended(x)
    /\ \A x \in Runs : ex_pc[x] \in {"idle", "returned", "raised"} \/ Suspended(x)
    /\ now' = now + 1
    /\ UNCHANGED <<ex_args, ex_pc, proc, pipe, ex, ex_result, notExecVars>>

(***************************************************************************)
(* Inputs of execute_python                                                *)
(***************************************************************************)
MaxBytes == 3

\* what a script writes to stdout: up to MaxBytes bytes of ASCII text, or of a
\* text of two-byte characters
AsciiText(n) == [k \in 1..n |-> "a"]
TwoByteText(n) == [k \in 1..n |-> IF k % 2 = 1 THEN "H" ELSE "T"]

ByteSeqs == { AsciiText(n) : n \in 0..MaxBytes } \cup { TwoByteText(n) : n \in 0..MaxBytes }

\* what a script writes to stderr: nothing, or MaxBytes ASCII bytes
ErrSeqs == { <<>>, AsciiText(MaxBytes) }

Timeouts == {1, 2}

\* exit is None for a script that never exits, else its exit status (the
\* negated signal number when a resource limit kills it)
Scripts ==
    [ out : ByteSeqs, err : ErrSeqs, exit : {None, Some(0), Some(1), Some(-SIGKILL)},
      descendant : {"none", "group", "session"} ]

NoScript == [out |-> <<>>, err |-> <<>>, exit |-> Some(0), descendant |-> "none"]

ExecArgs ==
    [ spawn : {"ok"}, timeout : Timeouts, max_output : 0..MaxBytes, script : Scripts ]
    \cup
    [ spawn : {"FileNotFoundError", "OSError", "SubprocessError"}, timeout : Timeouts,
      max_output : {MaxBytes}, script : {NoScript} ]

\* execute_python is called once, as run "py2"
ExecInit ==
    /\ DeadIdle
    /\ GraphIdle
    /\ RiskIdle
    /\ CompareIdle
    /\ OutputsIdle
    /\ ProbeIdle
    /\ ProjectIdle
    /\ \E args \in ExecArgs : ex_args = [x \in Runs |-> IF x = "py2" THEN args ELSE <<>>]
    /\ ex_pc = [x \in Runs |-> IF x = "py2" THEN "start" ELSE "idle"]
    /\ proc = [x \in Runs |-> <<>>]
    /\ pipe = [x \in Runs |-> <<>>]
    /\ ex = [x \in Runs |-> <<>>]
    /\ ex_result = [x \in Runs |-> None]
    /\ now = 0

ExecStep(x) ==
    \/ ExecSpawn(x) \/ ExecSpawnNotFound(x) \/ ExecSpawnOSError(x) \/ ExecSpawnRaise(x)
    \/ ChildExit(x) \/ ChildReap(x)
    \/ ExecComplete(x) \/ ExecExpire(x) \/ ExecKill(x)
    \/ ExecDrain(x) \/ ExecDrainTimeout(x) \/ ExecReturn(x)

ExecNext == (\E x \in Runs : ExecStep(x)) \/ ClockTick

SpecExec == ExecInit /\ [][ExecNext]_vars

(***************************************************************************)
(* Properties of execute_python                                            *)
(***************************************************************************)
Returned(x) == ex_pc[x] = "returned"

Result(x) == ex_result[x][1]

\* a process of the child's process group is alive
GroupAlive(x) ==
    \/ proc[x].state = "running"
    \/ proc[x].descendant = "group" /\ proc[x].descendant_alive

\* C13: when the timeout expires before the child has exited, execute_python
\* sends SIGKILL to the child's process group, and returns a result with
\* timed_out = true and an exit code that is absent or non-zero, within
\* timeout + drain bound, and no process of the group survives the return.
C13_TimeoutKillsGroup ==
    \A x \in Runs :
        (Returned(x) /\ ex_args[x].spawn = "ok" /\ ex[x].running_at_expiry) =>
            /\ ex[x].killpg
            /\ Result(x).timed_out
            /\ Result(x).exit_code # Some(0)
            /\ Result(x).execution_time <= ex_args[x].timeout + DrainBound
            /\ ~GroupAlive(x)

\* C14: execute_python never raises for a failure to spawn the child; it
\* returns a result with no exit code, empty stdout, a message in stderr,
\* timed_out = false and truncated = false.
C14_SpawnFailureIsAResult ==
    \A x \in Runs :
        /\ ex_pc[x] # "raised"
        /\ (Returned(x) /\ ex_args[x].spawn # "ok") =>
              /\ Result(x).exit_code = None
              /\ Result(x).stdout = <<>>
              /\ Result(x).stderr # <<>>
              /\ ~Result(x).timed_out
              /\ ~Result(x).truncated

\* what the return of run x makes of one captured stream
ReturnedStream(captured, returned, max_output) ==
    /\ Len(captured) > max_output => Len(returned) = max_output
    /\ Len(captured) <= max_output => returned = Decode(captured)

\* C15: a stream whose captured size exceeds max_output is returned with
\* length exactly max_output, a stream within the limit is returned unchanged,
\* and truncated is true iff at least one of the two streams exceeded the limit.
C15_IndependentTruncation ==
    [][\A x \in Runs :
          (ex_pc[x] = "finish" /\ ex_pc'[x] = "returned") =>
              /\ ReturnedStream(ex[x].stdout_bytes, ex_result'[x][1].stdout,
                                ex_args[x].max_output)
              /\ ReturnedStream(ex[x].stderr_bytes, ex_result'[x][1].stderr,
                                ex_args[x].max_output)
              /\ ex_result'[x][1].truncated <=>
                    \/ Len(ex[x].stdout_bytes) > ex_args[x].max_output
                    \/ Len(ex[x].stderr_bytes) > ex_args[x].max_output]_vars

\* the except clause of lines 131-150 has run: it alone moves the deadline
\* past start + timeout, to the end of the drain
WallClockFired(x) ==
    ex_args[x].spawn = "ok" /\ ex[x].deadline >= ex[x].start + ex_args[x].timeout + DrainBound

\* the child was no longer running when the wait expired, or the wait never
\* expired
ExitedBeforeTimeout(x) == ex_args[x].spawn = "ok" /\ ~ex[x].running_at_expiry

\* C27 as stated: timed_out is true iff the wall-clock timeout path fired,
\* also when the child was killed at the CPU ceiling; it is false whenever the
\* child exited or was killed by a resource ceiling before the wall-clock
\* timeout, and in every spawn-failure result.
C27_TimedOutIffWallClock ==
    \A x \in Runs :
        Returned(x) =>
            /\ Result(x).timed_out <=> WallClockFired(x)
            /\ ExitedBeforeTimeout(x) => ~Result(x).timed_out
            /\ ex_args[x].spawn # "ok" => ~Result(x).timed_out

\* C27 amended: timed_out is true iff the wall-clock timeout path fired, that
\* is iff the wait for communicate() expired before it returned: it is true
\* also when the child was killed at the CPU ceiling, and also when the child
\* had exited and a descendant still held its pipes; it is false whenever
\* communicate() returned before the wait expired, and in every spawn-failure
\* result.
C27_TimedOutIffWaitExpired ==
    \A x \in Runs :
        Returned(x) =>
            /\ Result(x).timed_out <=> WallClockFired(x)
            /\ Result(x).timed_out => Result(x).execution_time >= ex_args[x].timeout
            /\ (WallClockFired(x) /\ ex_args[x].script.exit = Some(-SIGKILL)) =>
                   Result(x).timed_out
            /\ (ex_args[x].spawn = "ok" /\ ~WallClockFired(x)) =>
                   /\ ~Result(x).timed_out
                   /\ Result(x).exit_code = ex_args[x].script.exit
                   /\ ~PipesOpen(x)
            /\ ex_args[x].spawn # "ok" => ~Result(x).timed_out

\* C27 witness: a script that exits with status 0 has left a descendant that
\* holds its pipes; the wait expired after the child had exited and been
\* reaped, and the result is timed out with exit code 0.
C27_Witness ==
    /\ Returned("py2")
    /\ ex_args["py2"].script.descendant = "session"
    /\ ex_args["py2"].script.exit = Some(0)
    /\ ExitedBeforeTimeout("py2") /\ WallClockFired("py2")
    /\ ~ex["py2"].killpg
    /\ Result("py2").timed_out /\ Result("py2").exit_code = Some(0)

(***************************************************************************)
(* output_comparator.py                                                    *)
(*                                                                         *)
(* A text is a sequence of characters.  The characters of an output are    *)
(* those Decode produces, and the executor's own messages, which are kept  *)
(* as one element each; a diff also holds the characters difflib writes.   *)
(***************************************************************************)
LowerCase == {"a", "b", "c", "d", "e", "f", "g", "h", "i", "j", "k", "l", "m",
              "n", "o", "p", "q", "r", "s", "t", "u", "v", "w", "x", "y", "z"}
UpperCase == {"A", "B", "C", "D", "E", "F", "G", "H", "I", "J", "K", "L", "M",
              "N", "O", "P", "Q", "R", "S", "T", "U", "V", "W", "X", "Y", "Z"}
DecimalDigits == {"0", "1", "2", "3", "4", "5", "6", "7", "8", "9"}

\* \d, \w and \s of the re module, on str patterns
IsDigit(c) == c \in DecimalDigits
IsWord(c) == c \in LowerCase \cup UpperCase \cup DecimalDigits \cup {"_", "e'"}
IsSpace(c) == c \in {" ", "\n", "\t"}

\* \b between the characters k and k + 1 of the text
WordBoundary(text, k) ==
    (k >= 1 /\ k <= Len(text) /\ IsWord(text[k]))
        # (k + 1 >= 1 /\ k + 1 <= Len(text) /\ IsWord(text[k + 1]))

\* the pattern word matches the text from the character k on
MatchAt(text, k, word) ==
    k >= 1 /\ k + Len(word) - 1 <= Len(text) /\ SubSeq(text, k, k + Len(word) - 1) = word

\* .* matches the characters i..j of the text (no newline among them)
DotStar(text, i, j) == \A k \in i..j : text[k] # "\n"

\* str(n), for the line numbers of a hunk header
DecimalOf(n) == <<CHOOSE d \in DecimalDigits : d = ToString(n)>>

\* "".join(lines)
RECURSIVE Join(_)
Join(lines) == IF lines = <<>> THEN <<>> ELSE Head(lines) \o Join(Tail(lines))

\* str.splitlines(keepends=True), for a text that holds one newline at most,
\* at its end
SplitLines(text) == IF text = <<>> THEN <<>> ELSE <<text>>

\* line.rstrip("\n")
RECURSIVE RStripNewline(_)
RStripNewline(line) ==
    IF line # <<>> /\ line[Len(line)] = "\n"
    THEN RStripNewline(SubSeq(line, 1, Len(line) - 1))
    ELSE line

Str_fromfile == <<"-", "-", "-", " ", "p", "y", "t", "h", "o", "n", "2", " ", "s", "t", "d", "o", "u", "t", "\n">>
Str_tofile == <<"+", "+", "+", " ", "p", "y", "t", "h", "o", "n", "3", " ", "s", "t", "d", "o", "u", "t", "\n">>

\* the range of a hunk header (difflib._format_range_unified): "s" for one
\* line, "s,n" otherwise, where an empty range starts one line earlier
FormatRangeUnified(start, stop) ==
    IF stop - start = 1 THEN DecimalOf(start + 1)
    ELSE DecimalOf(IF stop = start THEN start ELSE start + 1) \o <<",">> \o DecimalOf(stop - start)

\* Mutant: lines are compared without their line ends.
UnifiedDiffStripped(a, b) ==
    IF [k \in 1..Len(a) |-> RStripNewline(a[k])] = [k \in 1..Len(b) |-> RStripNewline(b[k])]
    THEN <<>>
    ELSE <<Str_fromfile, Str_tofile>>

\* difflib.unified_diff(a, b, fromfile="python2 stdout", tofile="python3
\* stdout") of two lists of one line at most (lines 51-58): nothing when they
\* are equal, else the two file headers, one hunk header, the line removed
\* and the line added
UnifiedDiff(a, b) ==
    IF a = b THEN <<>>
    ELSE << Str_fromfile, Str_tofile,
            <<"@", "@", " ", "-">> \o FormatRangeUnified(0, Len(a)) \o <<" ", "+">>
                \o FormatRangeUnified(0, Len(b)) \o <<" ", "@", "@", "\n">> >>
         \o [k \in 1..Len(a) |-> <<"-">> \o a[k]]
         \o [k \in 1..Len(b) |-> <<"+">> \o b[k]]

\* SequenceMatcher looks for the popular elements of a second sequence of at
\* least this many elements (autojunk, difflib.SequenceMatcher.__chain_b)
AutoJunkLen == 200

\* the number of times c is in the text
Count(text, c) == Cardinality({k \in 1..Len(text) : text[k] = c})

\* the elements that __chain_b leaves out of b2j: those found more than
\* len(b) // 100 + 1 times in a b of AutoJunkLen elements or more
Popular(b) ==
    IF Len(b) >= AutoJunkLen
    THEN {c \in {b[k] : k \in 1..Len(b)} : Count(b, c) > Len(b) \div 100 + 1}
    ELSE {}

\* the length of the longest common run that starts at a[i] and b[j], stays
\* below ahi and bhi, and is made of elements of b2j (none of them popular)
RECURSIVE RunLength(_, _, _, _, _, _, _)
RunLength(a, b, i, j, ahi, bhi, popular) ==
    IF i > ahi \/ j > bhi THEN 0
    ELSE IF a[i] # b[j] \/ b[j] \in popular THEN 0
    ELSE 1 + RunLength(a, b, i + 1, j + 1, ahi, bhi, popular)

\* the starting points of a run: a[i] = b[j], and b[j] is in b2j
Starts(a, b, alo, ahi, blo, bhi, popular) ==
    {p \in (alo..ahi) \X {j \in blo..bhi : b[j] \notin popular} : a[p[1]] = b[p[2]]}

\* the longest run among the pairs of starting points
LongestRun(a, b, ahi, bhi, popular, starts) ==
    CHOOSE k \in 0..Len(a) :
        /\ \A p \in starts : RunLength(a, b, p[1], p[2], ahi, bhi, popular) <= k
        /\ k = 0 \/ \E p \in starts : RunLength(a, b, p[1], p[2], ahi, bhi, popular) = k

\* the block of b2j elements that find_longest_match finds first: of the
\* longest ones, the one that starts earliest in a, and of those the one that
\* starts earliest in b; (alo, blo, 0) when there is none
CoreMatch(a, b, alo, ahi, blo, bhi, popular, starts, size) ==
    IF size = 0 THEN [a |-> alo, b |-> blo, size |-> 0]
    ELSE CHOOSE m \in [a : alo..ahi, b : blo..bhi, size : {size}] :
        /\ <<m.a, m.b>> \in starts
        /\ RunLength(a, b, m.a, m.b, ahi, bhi, popular) = size
        /\ \A p \in starts :
               RunLength(a, b, p[1], p[2], ahi, bhi, popular) = size =>
                   m.a < p[1] \/ (m.a = p[1] /\ m.b <= p[2])

\* how far the elements before a[i] and b[j] are equal, down to alo and blo
ExtendBack(a, b, i, j, alo, blo) ==
    CHOOSE k \in 0..(IF i - alo < j - blo THEN i - alo ELSE j - blo) :
        /\ SubSeq(a, i - k, i - 1) = SubSeq(b, j - k, j - 1)
        /\ i - k = alo \/ j - k = blo \/ a[i - k - 1] # b[j - k - 1]

\* how far the elements from a[i] and b[j] on are equal, up to ahi and bhi
ExtendForward(a, b, i, j, ahi, bhi) ==
    CHOOSE k \in 0..(IF ahi - i < bhi - j THEN ahi - i + 1 ELSE bhi - j + 1) :
        /\ SubSeq(a, i, i + k - 1) = SubSeq(b, j, j + k - 1)
        /\ i + k > ahi \/ j + k > bhi \/ a[i + k] # b[j + k]

\* the block grown over the equal elements after it (no element is junk)
ExtendedForward(a, b, ahi, bhi, m) ==
    [m EXCEPT !.size = m.size + ExtendForward(a, b, m.a + m.size, m.b + m.size, ahi, bhi)]

\* the block grown over the equal elements before it
ExtendedBack(m, back) == [a |-> m.a - back, b |-> m.b - back, size |-> m.size + back]

\* SequenceMatcher.find_longest_match
FindLongestMatch(a, b, alo, ahi, blo, bhi, popular, starts) ==
    ExtendedForward(a, b, ahi, bhi,
        ExtendedBack(
            CoreMatch(a, b, alo, ahi, blo, bhi, popular, starts,
                      LongestRun(a, b, ahi, bhi, popular, starts)),
            ExtendBack(a, b,
                CoreMatch(a, b, alo, ahi, blo, bhi, popular, starts,
                          LongestRun(a, b, ahi, bhi, popular, starts)).a,
                CoreMatch(a, b, alo, ahi, blo, bhi, popular, starts,
                          LongestRun(a, b, ahi, bhi, popular, starts)).b,
                alo, blo)))

\* SequenceMatcher.get_matching_blocks: the elements of the longest match,
\* and of the matches to its left and to its right
RECURSIVE MatchedChars(_, _, _, _, _, _, _)
MatchedAround(a, b, alo, ahi, blo, bhi, popular, m) ==
    IF m.size = 0 THEN 0
    ELSE m.size + MatchedChars(a, b, alo, m.a - 1, blo, m.b - 1, popular)
                + MatchedChars(a, b, m.a + m.size, ahi, m.b + m.size, bhi, popular)

MatchedChars(a, b, alo, ahi, blo, bhi, popular) ==
    IF alo > ahi \/ blo > bhi THEN 0
    ELSE MatchedAround(a, b, alo, ahi, blo, bhi, popular,
             FindLongestMatch(a, b, alo, ahi, blo, bhi, popular,
                              Starts(a, b, alo, ahi, blo, bhi, popular)))

\* the nearest integer to n / d, for d > 0
RoundDiv(n, d) == (2 * n + d) \div (2 * d)

\* round(SequenceMatcher(None, a, b).ratio() * 100, 2), in hundredths of a
\* percent (line 62): ratio() is 2.0 * matches / (len(a) + len(b)), and 1.0
\* for two empty texts
SimilarityPct(a, b) ==
    IF Len(a) + Len(b) = 0 THEN 10000
    ELSE RoundDiv(20000 * MatchedChars(a, b, 1, Len(a), 1, Len(b), Popular(b)),
                  Len(a) + Len(b))

\* re.search(r"[{].*:.*[}]", text)
HasDictRepr(text) ==
    \E i \in 1..Len(text) :
        /\ text[i] = "{"
        /\ \E j \in (i + 1)..Len(text) :
               /\ text[j] = ":"
               /\ \E k \in (j + 1)..Len(text) :
                      text[k] = "}" /\ DotStar(text, i + 1, k - 1)

\* re.search(r"""u['"]""", text)
HasUnicodePrefix(text) ==
    \E k \in 1..(Len(text) - 1) : text[k] = "u" /\ text[k + 1] \in {"'", "\""}

Str_type == <<"<", "t", "y", "p", "e">>
Str_class == <<"<", "c", "l", "a", "s", "s">>

\* re.search(word + r"\s+'", text)
HasRepr(text, word) ==
    \E i \in 1..Len(text) :
        /\ MatchAt(text, i, word)
        /\ \E j \in (i + Len(word) + 1)..Len(text) :
               /\ text[j] = "'"
               /\ \A k \in (i + Len(word))..(j - 1) : IsSpace(text[k])

\* the characters i..j of the text are digits
AllDigits(text, i, j) == \A k \in i..j : IsDigit(text[k])

\* re.search(r"\b\d+\b", text), and whether re.findall(r"\b(\d+)\b", text)
\* finds anything
HasInt(text) ==
    \E i \in 1..Len(text) :
        /\ IsDigit(text[i])
        /\ WordBoundary(text, i - 1)
        /\ \E j \in i..Len(text) : WordBoundary(text, j) /\ AllDigits(text, i, j)

\* whether re.findall(r"\b(\d+\.\d+)\b", text) finds anything
HasFloat(text) ==
    \E d \in 2..(Len(text) - 1) :
        /\ text[d] = "."
        /\ \E i \in 1..(d - 1) : WordBoundary(text, i - 1) /\ AllDigits(text, i, d - 1)
        /\ \E j \in (d + 1)..Len(text) : WordBoundary(text, j) /\ AllDigits(text, d + 1, j)

\* the warnings of _detect_false_positives, in the order of the code
DictWarning(py2_stdout, py3_stdout, diff_text) ==
    IF HasDictRepr(diff_text) /\ HasDictRepr(py2_stdout) /\ HasDictRepr(py3_stdout)
    THEN <<"dict repr">> ELSE <<>>

UnicodeWarning(py2_stdout, diff_text) ==
    IF HasUnicodePrefix(diff_text) \/ HasUnicodePrefix(py2_stdout)
    THEN <<"unicode prefix">> ELSE <<>>

TypeWarning(diff_text) ==
    IF HasRepr(diff_text, Str_type) \/ HasRepr(diff_text, Str_class)
    THEN <<"type repr">> ELSE <<>>

DivisionWarning(py2_stdout, py3_stdout, diff_text) ==
    IF HasInt(diff_text) /\ HasInt(py2_stdout) /\ HasFloat(py3_stdout)
    THEN <<"integer division">> ELSE <<>>

\* _detect_false_positives (lines 114-158); diff_lines still end with their
\* newlines here, and diff_text is "".join(diff_lines)
FalsePositives(py2_stdout, py3_stdout, diff_text) ==
    DictWarning(py2_stdout, py3_stdout, diff_text)
        \o UnicodeWarning(py2_stdout, diff_text)
        \o TypeWarning(diff_text)
        \o DivisionWarning(py2_stdout, py3_stdout, diff_text)

DetectFalsePositives(py2_stdout, py3_stdout, diff_lines) ==
    FalsePositives(py2_stdout, py3_stdout, Join(diff_lines))

Str_NameError == <<"N", "a", "m", "e", "E", "r", "r", "o", "r">>
Str_ModuleNotFoundError == <<"M", "o", "d", "u", "l", "e", "N", "o", "t", "F", "o", "u", "n", "d", "E", "r", "r", "o", "r">>
Str_ImportError == <<"I", "m", "p", "o", "r", "t", "E", "r", "r", "o", "r">>

\* _PY2_BUILTINS (lines 14-23), in the order the set is written in
PY2_BUILTINS ==
    << <<"r", "e", "d", "u", "c", "e">>,
       <<"r", "a", "w", "_", "i", "n", "p", "u", "t">>,
       <<"x", "r", "a", "n", "g", "e">>,
       <<"b", "a", "s", "e", "s", "t", "r", "i", "n", "g">>,
       <<"c", "m", "p">>,
       <<"l", "o", "n", "g">>,
       <<"e", "x", "e", "c", "f", "i", "l", "e">>,
       <<"r", "e", "l", "o", "a", "d">> >>

\* the keys of _PY2_MODULES (lines 25-31)
PY2_MODULES ==
    << <<"c", "P", "i", "c", "k", "l", "e">>,
       <<"c", "S", "t", "r", "i", "n", "g", "I", "O">>,
       <<"C", "o", "n", "f", "i", "g", "P", "a", "r", "s", "e", "r">>,
       <<"Q", "u", "e", "u", "e">>,
       <<"H", "T", "M", "L", "P", "a", "r", "s", "e", "r">> >>

\* re.search(error + r".*\b" + name + r"\b", text)
HasErrorFor(text, error, name) ==
    \E i \in 1..Len(text) :
        /\ MatchAt(text, i, error)
        /\ \E j \in (i + Len(error))..Len(text) :
               /\ MatchAt(text, j, name)
               /\ DotStar(text, i + Len(error), j - 1)
               /\ WordBoundary(text, j - 1) /\ WordBoundary(text, j + Len(name) - 1)

\* the loop of lines 167-172, over the builtins in the order given
RECURSIVE BuiltinGaps(_, _)
BuiltinGaps(py3_stderr, builtins) ==
    IF builtins = <<>> THEN <<>>
    ELSE (IF HasErrorFor(py3_stderr, Str_NameError, Head(builtins))
          THEN <<<<"NameError", Head(builtins)>>>> ELSE <<>>)
         \o BuiltinGaps(py3_stderr, Tail(builtins))

\* the loop of lines 175-182
RECURSIVE ModuleGaps(_, _)
ModuleGaps(py3_stderr, modules) ==
    IF modules = <<>> THEN <<>>
    ELSE (IF \/ HasErrorFor(py3_stderr, Str_ModuleNotFoundError, Head(modules))
             \/ HasErrorFor(py3_stderr, Str_ImportError, Head(modules))
          THEN <<<<"import failed", Head(modules)>>>> ELSE <<>>)
         \o ModuleGaps(py3_stderr, Tail(modules))

\* _detect_migration_gaps (lines 161-184); builtin_order is the order in which
\* the set _PY2_BUILTINS is iterated
DetectMigrationGaps(py3_stderr, builtin_order) ==
    BuiltinGaps(py3_stderr, builtin_order) \o ModuleGaps(py3_stderr, PY2_MODULES)

\* Mutant: the outputs match only if the exit codes and the stderr do too.
ComparisonOfAllFields(py2, py3, diff_lines, builtin_order) ==
    [ outputs_match |-> py2.stdout = py3.stdout /\ py2.exit_code = py3.exit_code
                            /\ py2.stderr = py3.stderr,
      diff_lines |-> [k \in 1..Len(diff_lines) |-> RStripNewline(diff_lines[k])],
      similarity_pct |-> SimilarityPct(py2.stdout, py3.stdout),
      warnings |-> DetectFalsePositives(py2.stdout, py3.stdout, diff_lines)
                       \o DetectMigrationGaps(py3.stderr, builtin_order) ]

\* the dict of lines 69-74
Comparison(py2, py3, diff_lines, builtin_order) ==
    [ outputs_match |-> py2.stdout = py3.stdout,
      diff_lines |-> [k \in 1..Len(diff_lines) |-> RStripNewline(diff_lines[k])],
      similarity_pct |-> SimilarityPct(py2.stdout, py3.stdout),
      warnings |-> DetectFalsePositives(py2.stdout, py3.stdout, diff_lines)
                       \o DetectMigrationGaps(py3.stderr, builtin_order) ]

\* compare_outputs (lines 39-74)
CompareOutputs(py2, py3, builtin_order) ==
    Comparison(py2, py3, UnifiedDiff(SplitLines(py2.stdout), SplitLines(py3.stdout)),
               builtin_order)

\* the warnings of scan_pre_run_warnings (lines 77-106), in the order of the
\* code, for a source that holds the given features
PreRunPatterns == <<"raw_input(", "input(", "import random", "datetime.now(", "time.time(">>

RECURSIVE ScanPreRun(_, _)
ScanPreRun(features, patterns) ==
    IF patterns = <<>> THEN <<>>
    ELSE (IF Head(patterns) \in features THEN <<Head(patterns)>> ELSE <<>>)
         \o ScanPreRun(features, Tail(patterns))

ScanPreRunWarnings(features) == ScanPreRun(features, PreRunPatterns)

(***************************************************************************)
(* project_manager.run_and_compare                                         *)
(*                                                                         *)
(* rc_env.fault names the first thing that goes wrong before the two       *)
(* executions start ("none" when nothing does): every check and every      *)
(* step before asyncio.gather leaves the call when it fails, so what       *)
(* would have failed after it plays no part.                               *)
(***************************************************************************)
\* Mutant: a check that lets everything through.
PreconditionIgnored(step) == TRUE

\* the conditions of lines 380, 384-385, 389-390, 397 and 402: what the step
\* looks for is there
Precondition(step) == rc_env.fault # step

\* request.timeout_seconds or settings.code_execution_timeout (line 430)
EffectiveTimeout(timeout_seconds, code_execution_timeout) ==
    IF timeout_seconds = None \/ timeout_seconds = Some(0)
    THEN code_execution_timeout
    ELSE timeout_seconds[1]

\* the locals of run_and_compare, and what the call has come to
RcLocals ==
    [ warnings |-> <<>>, started |-> None, pending |-> None,
      py2_result |-> None, py3_result |-> None, compared |-> None,
      comparison |-> None, outcome |-> None, resolved_at |-> None ]

\* raise error
RcRaise(error) ==
    /\ rc_pc' = "raised"
    /\ rc' = [rc EXCEPT !.outcome = Some([raised |-> error]), !.resolved_at = Some(now)]

\* line 379-381
RcCheckProject ==
    /\ rc_pc = "start"
    /\ IF Precondition("project")
       THEN rc_pc' = "check_source" /\ rc' = rc
       ELSE RcRaise("ValueError")
    /\ UNCHANGED <<rc_env, temp, execVars, notCompareVars>>

\* lines 384-386: _safe_path raises ValueError for a path that leaves the
\* project (lines 109-115), and so does a source file that is not there
RcCheckSource ==
    /\ rc_pc = "check_source"
    /\ IF Precondition("source_path") /\ Precondition("source")
       THEN rc_pc' = "check_migrated" /\ rc' = rc
       ELSE RcRaise("ValueError")
    /\ UNCHANGED <<rc_env, temp, execVars, notCompareVars>>

\* lines 389-394
RcCheckMigrated ==
    /\ rc_pc = "check_migrated"
    /\ IF Precondition("migrated")
       THEN rc_pc' = "check_python2" /\ rc' = rc
       ELSE RcRaise("ValueError")
    /\ UNCHANGED <<rc_env, temp, execVars, notCompareVars>>

\* lines 397-401; check_interpreter (code_executor.py, lines 19-34) returns
\* False for an interpreter that cannot be started, that does not exit with 0
\* or that does not answer in time
RcCheckPython2 ==
    /\ rc_pc = "check_python2"
    /\ IF Precondition("py2")
       THEN rc_pc' = "check_python3" /\ rc' = rc
       ELSE RcRaise("ValueError")
    /\ UNCHANGED <<rc_env, temp, execVars, notCompareVars>>

\* lines 402-406
RcCheckPython3 ==
    /\ rc_pc = "check_python3"
    /\ IF Precondition("py3")
       THEN rc_pc' = "scan" /\ rc' = rc
       ELSE RcRaise("ValueError")
    /\ UNCHANGED <<rc_env, temp, execVars, notCompareVars>>

\* lines 409-411: open and read raise OSError or UnicodeDecodeError
RcScan ==
    /\ rc_pc = "scan"
    /\ IF rc_env.fault # "read"
       THEN /\ rc_pc' = "temp_py2"
            /\ rc' = [rc EXCEPT !.warnings = ScanPreRunWarnings(rc_env.features)]
       ELSE RcRaise("OSError")
    /\ UNCHANGED <<rc_env, temp, execVars, notCompareVars>>

\* line 418: temp_py2 = tempfile.TemporaryDirectory()
RcTempPy2 ==
    /\ rc_pc = "temp_py2"
    /\ IF rc_env.fault # "temp_py2"
       THEN /\ rc_pc' = "temp_py3"
            /\ temp' = [temp EXCEPT !["py2"] = "created"]
            /\ rc' = rc
       ELSE RcRaise("OSError") /\ temp' = temp
    /\ UNCHANGED <<rc_env, execVars, notCompareVars>>

\* line 419: temp_py3 = tempfile.TemporaryDirectory(), before the try
RcTempPy3 ==
    /\ rc_pc = "temp_py3"
    /\ IF rc_env.fault # "temp_py3"
       THEN /\ rc_pc' = "copy_py2"
            /\ temp' = [temp EXCEPT !["py3"] = "created"]
            /\ rc' = rc
       ELSE RcRaise("OSError") /\ temp' = temp
    /\ UNCHANGED <<rc_env, execVars, notCompareVars>>

\* line 424, in the try: an error of shutil.copytree goes to the finally
RcCopyPy2 ==
    /\ rc_pc = "copy_py2"
    /\ IF rc_env.fault # "copy_py2"
       THEN rc_pc' = "copy_py3" /\ rc' = rc
       ELSE rc_pc' = "finally" /\ rc' = [rc EXCEPT !.pending = Some("shutil.Error")]
    /\ UNCHANGED <<rc_env, temp, execVars, notCompareVars>>

\* line 425
RcCopyPy3 ==
    /\ rc_pc = "copy_py3"
    /\ IF rc_env.fault # "copy_py3"
       THEN rc_pc' = "gather" /\ rc' = rc
       ELSE rc_pc' = "finally" /\ rc' = [rc EXCEPT !.pending = Some("shutil.Error")]
    /\ UNCHANGED <<rc_env, temp, execVars, notCompareVars>>

\* Mutant: only the first execution is scheduled.
GatheredFirstOnly == {"py2"}

\* the coroutines that asyncio.gather schedules (lines 433-450)
Gathered == Runs

\* the arguments of execute_python for a run (lines 434-449); an interpreter
\* that is not there cannot be started
ExecuteArgs(x) ==
    [ spawn |-> IF Precondition(x) THEN rc_env.run[x].spawn ELSE "FileNotFoundError",
      timeout |-> EffectiveTimeout(rc_env.timeout_seconds, rc_env.code_execution_timeout),
      max_output |-> rc_env.max_output_bytes,
      script |-> rc_env.run[x].script ]

\* lines 430-450: asyncio.gather wraps both coroutines in tasks, and
\* run_and_compare awaits the two together
RcGather ==
    /\ rc_pc = "gather"
    /\ ex_args' = [x \in Runs |-> IF x \in Gathered THEN ExecuteArgs(x) ELSE ex_args[x]]
    /\ ex_pc' = [x \in Runs |-> IF x \in Gathered THEN "start" ELSE ex_pc[x]]
    /\ rc' = [rc EXCEPT !.started = Some(now)]
    /\ rc_pc' = "await"
    /\ UNCHANGED <<rc_env, temp, proc, pipe, ex, ex_result, now, notCompareVars>>

\* Mutant: when a run has timed out, the results of both are dropped.
GatherResultDiscarding(x) ==
    IF \E y \in Runs : ex_result[y][1].timed_out
    THEN ExecutionResult(None, <<>>, <<>>, 0, TRUE, FALSE)
    ELSE ex_result[x][1]

\* what gather hands back for a run: the value its coroutine returned
GatherResult(x) == ex_result[x][1]

\* line 433: both coroutines have returned, gather returns their results
RcJoin ==
    /\ rc_pc = "await"
    /\ \A x \in Runs : ex_pc[x] = "returned"
    /\ rc' = [rc EXCEPT !.py2_result = GatherResult("py2"),
                        !.py3_result = GatherResult("py3")]
    /\ rc_pc' = "finally"
    /\ UNCHANGED <<rc_env, temp, execVars, notCompareVars>>

\* line 433: a coroutine has raised; gather, called without
\* return_exceptions, raises its exception at once and lets the other
\* coroutine run on
RcGatherRaise ==
    /\ rc_pc = "await"
    /\ \E x \in Runs : ex_pc[x] = "raised"
    /\ rc' = [rc EXCEPT !.pending = Some("SubprocessError")]
    /\ rc_pc' = "finally"
    /\ UNCHANGED <<rc_env, temp, execVars, notCompareVars>>

\* lines 451-453: both directories are removed, and the pending exception, if
\* any, goes on to the caller
RcCleanup ==
    /\ rc_pc = "finally"
    /\ temp' = [x \in Runs |-> "released"]
    /\ IF rc.pending = None
       THEN rc_pc' = "compare" /\ rc' = rc
       ELSE RcRaise(rc.pending[1])
    /\ UNCHANGED <<rc_env, execVars, notCompareVars>>

\* line 456; the set _PY2_BUILTINS is iterated in the order its hashes give
RcCompare ==
    /\ rc_pc = "compare"
    /\ \E builtin_order \in {PY2_BUILTINS, Reverse(PY2_BUILTINS)} :
           rc' = [rc EXCEPT
                     !.compared = Some([py2 |-> rc.py2_result, py3 |-> rc.py3_result]),
                     !.comparison = Some(CompareOutputs(rc.py2_result, rc.py3_result,
                                                        builtin_order))]
    /\ rc_pc' = "respond"
    /\ UNCHANGED <<rc_env, temp, execVars, notCompareVars>>

\* the keys that lines 463-466 look up in the dict, in the order of the
\* keyword arguments
ResponseKeys == <<"outputs_match", "exit_codes_match", "diff_lines", "similarity_pct">>

\* the first of the keys that the dict does not hold: d[key] raises KeyError
RECURSIVE MissingKey(_, _)
MissingKey(d, keys) ==
    IF keys = <<>> THEN None
    ELSE IF Head(keys) \in DOMAIN d THEN MissingKey(d, Tail(keys))
    ELSE Some(Head(keys))

\* d.get(key, default)
DictGet(d, key, default) == IF key \in DOMAIN d THEN d[key] ELSE default

\* RunCompareResponse(...), lines 458-468
RunCompareResponse(py2, py3, comparison, warnings) ==
    [ py2 |-> py2, py3 |-> py3,
      outputs_match |-> comparison["outputs_match"],
      exit_codes_match |-> comparison["exit_codes_match"],
      diff_lines |-> comparison["diff_lines"],
      similarity_pct |-> comparison["similarity_pct"],
      warnings |-> warnings \o DictGet(comparison, "warnings", <<>>) ]

\* lines 458-468: the keyword arguments are evaluated, then the response is
\* built and returned
RcRespond ==
    /\ rc_pc = "respond"
    /\ IF MissingKey(rc.comparison[1], ResponseKeys) # None
       THEN RcRaise("KeyError")
       ELSE /\ rc_pc' = "returned"
            /\ rc' = [rc EXCEPT
                   !.outcome = Some([returned |->
                       RunCompareResponse(rc.py2_result, rc.py3_result,
                                          rc.comparison[1], rc.warnings)]),
                   !.resolved_at = Some(now)]
    /\ UNCHANGED <<rc_env, temp, execVars, notCompareVars>>

\* the TemporaryDirectory object of a call that is over is collected: its
\* finalizer removes the directory
RcFinalize(x) ==
    /\ rc_pc \in {"returned", "raised"}
    /\ temp[x] = "created"
    /\ temp' = [temp EXCEPT ![x] = "released"]
    /\ UNCHANGED <<rc_env, rc_pc, rc, execVars, notCompareVars>>

(***************************************************************************)
(* Inputs of run_and_compare                                               *)
(***************************************************************************)
\* what can go wrong before the executions start
CompareFaults ==
    { "none", "project", "source_path", "source", "migrated", "py2", "py3", "read",
      "temp_py2", "temp_py3", "copy_py2", "copy_py3" }

\* the scripts of a comparison: they write nothing or one character, return,
\* fail or never exit, alone or with a descendant that outlives them
CompareScripts ==
    [ out : {<<>>, AsciiText(1)}, err : {<<>>}, exit : {None, Some(0), Some(1)},
      descendant : {"none"} ]
    \cup
    [ out : {AsciiText(1)}, err : {<<>>}, exit : {None}, descendant : {"session"} ]

\* how the execution of the original starts, and what it runs
CompareRuns ==
    [ spawn : {"ok"}, script : CompareScripts ]
    \cup [ spawn : {"FileNotFoundError", "OSError", "SubprocessError"}, script : {NoScript} ]

\* the execution of the migrated file: it writes one character and returns,
\* it hangs, or it cannot be started
MigratedRuns ==
    { [spawn |-> "ok", script |-> [NoScript EXCEPT !.out = AsciiText(1)]],
      [spawn |-> "ok", script |-> [NoScript EXCEPT !.exit = None]],
      [spawn |-> "SubprocessError", script |-> NoScript] }

\* request.timeout_seconds and settings.code_execution_timeout, and what
\* scan_pre_run_warnings finds in the source
CompareRequests ==
    { [timeout_seconds |-> None, code_execution_timeout |-> 2, features |-> {}],
      [timeout_seconds |-> Some(1), code_execution_timeout |-> 2,
       features |-> {"raw_input(", "import random"}] }

CompareEnv(fault, py2, py3, t) ==
    [ fault |-> fault, features |-> t.features,
      run |-> [x \in Runs |-> IF x = "py2" THEN py2 ELSE py3],
      timeout_seconds |-> t.timeout_seconds,
      code_execution_timeout |-> t.code_execution_timeout,
      max_output_bytes |-> MaxBytes ]

\* the calls in which nothing goes wrong before the executions start, and
\* one call for each thing that does
CompareEnvs ==
    { CompareEnv("none", py2, py3, t) :
        py2 \in CompareRuns, py3 \in MigratedRuns, t \in CompareRequests }
    \cup
    { CompareEnv(fault, [spawn |-> "ok", script |-> NoScript],
                 [spawn |-> "ok", script |-> NoScript], t) :
        fault \in CompareFaults \ {"none"}, t \in CompareRequests }

\* run_and_compare is called once
CompareInit ==
    /\ DeadIdle
    /\ GraphIdle
    /\ RiskIdle
    /\ ExecIdle
    /\ OutputsIdle
    /\ ProbeIdle
    /\ ProjectIdle
    /\ rc_env \in CompareEnvs
    /\ rc_pc = "start"
    /\ temp = [x \in Runs |-> "none"]
    /\ rc = RcLocals

CompareNext ==
    \/ RcCheckProject \/ RcCheckSource \/ RcCheckMigrated
    \/ RcCheckPython2 \/ RcCheckPython3 \/ RcScan
    \/ RcTempPy2 \/ RcTempPy3 \/ RcCopyPy2 \/ RcCopyPy3
    \/ RcGather \/ RcJoin \/ RcGatherRaise \/ RcCleanup
    \/ RcCompare \/ RcRespond
    \/ \E x \in Runs : RcFinalize(x)
    \/ \E x \in Runs : ExecStep(x)
    \/ ClockTick

SpecCompare == CompareInit /\ [][CompareNext]_vars

(***************************************************************************)
(* Properties of run_and_compare                                           *)
(***************************************************************************)
\* the call is over
Resolved == rc_pc \in {"returned", "raised"}

\* the project, the source file or the migrated file is missing, or an
\* interpreter fails check_interpreter
PreconditionFails ==
    rc_pc # "idle" /\ rc_env.fault \in {"project", "source", "migrated", "py2", "py3"}

\* C16: when the project, the source file or the migrated file does not exist
\* or an interpreter is not available, the call never creates a working
\* directory, never starts an execution and never returns a report; when it
\* is over it has raised ValueError, and from then on it takes no further step
\* (it does not try again).
C16_PreconditionFailure ==
    /\ [](PreconditionFails =>
            /\ \A x \in Runs : temp[x] = "none" /\ ex_pc[x] = "idle"
            /\ rc_pc # "returned"
            /\ rc_pc = "raised" => rc.outcome = Some([raised |-> "ValueError"]))
    /\ [][(PreconditionFails /\ rc_pc = "raised") => UNCHANGED <<compareVars, execVars>>]_vars

\* C16 witness: the call has raised because the Python 3 interpreter, the last
\* thing checked, is not available
C16_Witness ==
    /\ rc_pc = "raised"
    /\ rc_env.fault = "py3"
    /\ rc.outcome = Some([raised |-> "ValueError"])

\* both artifacts exist, both interpreters are available and both executions
\* have returned a result
BothResolved ==
    /\ rc_pc # "idle"
    /\ rc_env.fault = "none"
    /\ \A x \in Runs : Returned(x)

\* the report that run_and_compare has returned
Report == rc.outcome[1].returned

\* C17: when both artifacts exist, both interpreters are available and both
\* executions have returned, a call that is over has returned a report, and
\* the outputs_match, diff_lines, similarity_pct and warnings of the report are
\* those of the dict compare_outputs made of the two results.
C17_ReportFromComparison ==
    (BothResolved /\ Resolved) =>
        /\ rc_pc = "returned"
        /\ rc.compared = Some([py2 |-> Result("py2"), py3 |-> Result("py3")])
        /\ Report.outputs_match = rc.comparison[1].outputs_match
        /\ Report.diff_lines = rc.comparison[1].diff_lines
        /\ Report.similarity_pct = rc.comparison[1].similarity_pct
        /\ Report.warnings = rc.comparison[1].warnings

\* the timeout both executions are given (line 430)
CallTimeout == EffectiveTimeout(rc_env.timeout_seconds, rc_env.code_execution_timeout)

\* the seconds from the start of the executions to the end of the call
Latency == rc.resolved_at[1] - rc.started[1]

\* C18: while run_and_compare waits for the executions, both have been
\* started, and each one that got a process started at the moment gather was
\* called; a call that has started them is over within the timeout (the same
\* for both runs) plus the drain bound of starting them.
C18_RunsOverlap ==
    /\ rc_pc = "await" =>
           \A x \in Runs : ex_pc[x] # "idle" /\ (ex[x] # <<>> => ex[x].start = rc.started[1])
    /\ (Resolved /\ rc.started # None) => Latency <= CallTimeout + DrainBound

\* C18 witness: both executions ran into the timeout, and the call was over
\* one timeout after it had started them
C18_Witness ==
    /\ Resolved
    /\ rc.started # None
    /\ \A x \in Runs : Returned(x) /\ Result(x).timed_out
    /\ Latency = CallTimeout

\* C19: compare_outputs has been called only if both executions have returned,
\* and it was given the result of each as execute_python returned it; a call
\* that is over after both executions have returned has called it, also when
\* an execution has timed out.
C19_JoinBeforeCompare ==
    /\ (rc_pc # "idle" /\ rc.compared # None) =>
           \A x \in Runs : Returned(x) /\ rc.compared[1][x] = Result(x)
    /\ (BothResolved /\ Resolved) => rc.compared # None

\* C19 witness: the migrated file hung and was timed out, the original had
\* written its output and returned, and the comparator was given both results
C19_Witness ==
    /\ rc_pc # "idle"
    /\ rc.compared # None
    /\ rc.compared[1].py3.timed_out
    /\ ~rc.compared[1].py2.timed_out
    /\ rc.compared[1].py2.stdout = AsciiText(1)
    /\ rc.compared[1].py2.exit_code = Some(0)

\* C20: when the call is over (it has returned or raised), no temporary
\* directory that it created is still there.
C20_TempDirsReleased ==
    Resolved => \A x \in Runs : temp[x] # "created"

\* an execution that has been started and is neither returned nor raised
Running(x) == ex_pc[x] \notin {"idle", "returned", "raised"}

\* C28: in no step does a working directory go away while the execution
\* started in it is still running, also when the other execution has raised:
\* a directory is removed only after its execution has returned or raised, or
\* when none was started in it.
C28_NoCleanupUnderRunningExecution ==
    [][\A x \in Runs : (temp[x] = "created" /\ temp'[x] = "released") => ~Running(x)]_vars

(***************************************************************************)
(* compare_outputs on its own: two calls, the second on results with the   *)
(* same stdout as the first and other stderr, exit codes and flags         *)
(***************************************************************************)
Calls == {1, 2}

\* c, n times
Repeat(c, n) == [k \in 1..n |-> c]

\* the stdout of a run: nothing, a line with and without its newline, "abc",
\* an integer, a float, a dict repr, and two texts long enough for
\* SequenceMatcher to look for popular elements, which differ in one character
OutputTexts ==
    { <<>>, <<"a">>, <<"a", "\n">>, <<"a", "b", "c">>, <<"1">>, <<"1", ".", "5">>,
      <<"{", "a", ":", "1", "}">>,
      <<"b">> \o Repeat("a", AutoJunkLen - 1), Repeat("a", AutoJunkLen) }

\* a traceback of Python 3 that names a Python 2 builtin
NameErrorText == Str_NameError \o <<":", " ">> \o PY2_BUILTINS[3]

\* what a result holds besides its stdout
OutputContexts ==
    { [stderr |-> <<>>, exit_code |-> Some(0), timed_out |-> FALSE, truncated |-> FALSE],
      [stderr |-> NameErrorText, exit_code |-> Some(1), timed_out |-> FALSE,
       truncated |-> FALSE],
      [stderr |-> <<>>, exit_code |-> None, timed_out |-> TRUE, truncated |-> TRUE] }

PlainContext == [stderr |-> <<>>, exit_code |-> Some(0), timed_out |-> FALSE, truncated |-> FALSE]

ResultOfRun(stdout, c) ==
    ExecutionResult(c.exit_code, stdout, c.stderr, 0, c.timed_out, c.truncated)

OutputsInit ==
    /\ DeadIdle
    /\ GraphIdle
    /\ RiskIdle
    /\ ExecIdle
    /\ CompareIdle
    /\ ProbeIdle
    /\ ProjectIdle
    /\ \E o2 \in OutputTexts, o3 \in OutputTexts, c2 \in OutputContexts, c3 \in OutputContexts :
           co_calls = [k \in Calls |->
               IF k = 1
               THEN [py2 |-> ResultOfRun(o2, PlainContext), py3 |-> ResultOfRun(o3, PlainContext)]
               ELSE [py2 |-> ResultOfRun(o2, c2), py3 |-> ResultOfRun(o3, c3)]]
    /\ co_results = [k \in Calls |-> None]

\* compare_outputs(py2, py3) (lines 39-74); the set _PY2_BUILTINS is iterated
\* in the order its hashes give
CompareCall(k) ==
    /\ co_results[k] = None
    /\ \E builtin_order \in {PY2_BUILTINS, Reverse(PY2_BUILTINS)} :
           co_results' = [co_results EXCEPT ![k] =
               Some(CompareOutputs(co_calls[k].py2, co_calls[k].py3, builtin_order))]
    /\ UNCHANGED <<co_calls, notOutputsVars>>

OutputsNext == \E k \in Calls : CompareCall(k)

SpecOutputs == OutputsInit /\ [][OutputsNext]_vars

(***************************************************************************)
(* Properties of compare_outputs                                           *)
(***************************************************************************)
\* call k has returned
Compared(k) == co_results[k] # None

\* the two stdout strings of call k are the same string
SameStdout(k) == co_calls[k].py2.stdout = co_calls[k].py3.stdout

\* C21: in what compare_outputs returns, outputs_match is true exactly when
\* the two stdout strings are equal, and they are equal exactly when diff_lines
\* is empty; a result compared with itself gives outputs_match = true and no
\* diff line.
C21_MatchIffEmptyDiff ==
    \A k \in Calls :
        Compared(k) =>
            /\ co_results[k][1].outputs_match <=> SameStdout(k)
            /\ SameStdout(k) <=> co_results[k][1].diff_lines = <<>>
            /\ co_calls[k].py2 = co_calls[k].py3 =>
                   co_results[k][1].outputs_match /\ co_results[k][1].diff_lines = <<>>

\* C21 witness: a result whose stdout is a line has been compared with
\* itself
C21_Witness ==
    /\ Compared(1)
    /\ co_calls[1].py2 = co_calls[1].py3
    /\ co_calls[1].py2.stdout = <<"a", "\n">>
    /\ co_results[1][1].outputs_match
    /\ co_results[1][1].diff_lines = <<>>

\* some character is in both stdout strings of call k
SharesCharacter(k) ==
    \E i \in 1..Len(co_calls[k].py2.stdout) : \E j \in 1..Len(co_calls[k].py3.stdout) :
        co_calls[k].py2.stdout[i] = co_calls[k].py3.stdout[j]

\* both stdout strings of call k are empty
BothEmpty(k) == co_calls[k].py2.stdout = <<>> /\ co_calls[k].py3.stdout = <<>>

\* C22: similarity_pct (in hundredths) is between 0 and 100, is 100 exactly
\* when the two stdout strings are the same string (two empty ones included),
\* and otherwise is 0 exactly when no character of one can be aligned with a
\* character of the other.
C22_SimilarityRange ==
    \A k \in Calls :
        Compared(k) =>
            /\ co_results[k][1].similarity_pct \in 0..10000
            /\ co_results[k][1].similarity_pct = 10000 <=> SameStdout(k)
            /\ co_results[k][1].similarity_pct = 0 <=>
                   (~SharesCharacter(k) /\ ~BothEmpty(k))

\* C23: two calls of compare_outputs on results with the same two stdout
\* strings return the same outputs_match, whatever the stderr, the exit codes
\* and the flags of the results are and whatever warnings the calls return.
C23_MatchDependsOnStdoutOnly ==
    ( /\ Compared(1) /\ Compared(2)
      /\ co_calls[1].py2.stdout = co_calls[2].py2.stdout
      /\ co_calls[1].py3.stdout = co_calls[2].py3.stdout )
    => co_results[1][1].outputs_match = co_results[2][1].outputs_match

\* C23 witness: the two calls had the same stdout strings, an integer and a
\* float; the second had another stderr, exit code and flags and returned a
\* migration-gap warning more than the first, which returned an advisory one
C23_Witness ==
    /\ Compared(1) /\ Compared(2)
    /\ co_calls[1].py2.stdout = <<"1">> /\ co_calls[1].py3.stdout = <<"1", ".", "5">>
    /\ co_calls[2].py3.stderr = NameErrorText
    /\ co_calls[2].py2.timed_out /\ co_calls[2].py2.exit_code = None
    /\ co_results[1][1].warnings = <<"integer division">>
    /\ Len(co_results[2][1].warnings) = 2
    /\ co_results[1][1].outputs_match = co_results[2][1].outputs_match

(***************************************************************************)
(* code_executor.check_interpreter, as run_and_compare calls it: for the   *)
(* Python 2 interpreter, then, if that one is available, for the Python 3  *)
(* interpreter (project_manager.py, lines 397-406)                         *)
(***************************************************************************)
\* timeout=10 (line 31)
ProbeTimeout == 10

\* the process that create_subprocess_exec has started (lines 25-30)
Probe_started == [state |-> "running", returncode |-> None]

\* the call for the Python 3 interpreter is made when the call for the
\* Python 2 interpreter has returned True (lines 397-402)
CiCalled(x) == x = "py2" \/ ci_result["py2"] = Some(TRUE)

\* lines 25-31: the probe is started, and wait_for starts its 10 seconds
CiSpawn(x) ==
    /\ ci_pc[x] = "start"
    /\ CiCalled(x)
    /\ ci_env[x].spawn = "ok"
    /\ ci_proc' = [ci_proc EXCEPT ![x] = Probe_started]
    /\ ci_deadline' = [ci_deadline EXCEPT ![x] = ci_now + ProbeTimeout]
    /\ ci_pc' = [ci_pc EXCEPT ![x] = "wait"]
    /\ UNCHANGED <<ci_env, ci_result, ci_now, notProbeVars>>

\* except (FileNotFoundError, OSError, ...): return False (lines 33-34)
CiSpawnFails(x) ==
    /\ ci_pc[x] = "start"
    /\ CiCalled(x)
    /\ ci_env[x].spawn # "ok"
    /\ ci_result' = [ci_result EXCEPT ![x] = Some(FALSE)]
    /\ ci_pc' = [ci_pc EXCEPT ![x] = "returned"]
    /\ UNCHANGED <<ci_env, ci_proc, ci_deadline, ci_now, notProbeVars>>

\* the probe exits, during the call or after it
ProbeExit(x) ==
    /\ ci_pc[x] \in {"wait", "returned"}
    /\ ci_proc[x] # None
    /\ ci_proc[x].state = "running"
    /\ ci_env[x].exit # None
    /\ ci_proc' = [ci_proc EXCEPT ![x].state = "zombie"]
    /\ UNCHANGED <<ci_env, ci_pc, ci_deadline, ci_result, ci_now, notProbeVars>>

\* the child watcher reaps the probe: proc.returncode is set
ProbeReap(x) ==
    /\ ci_pc[x] \in {"wait", "returned"}
    /\ ci_proc[x] # None
    /\ ci_proc[x].state = "zombie"
    /\ ci_proc' = [ci_proc EXCEPT ![x].state = "reaped", ![x].returncode = ci_env[x].exit]
    /\ UNCHANGED <<ci_env, ci_pc, ci_deadline, ci_result, ci_now, notProbeVars>>

\* proc.communicate() returns within the 10 seconds: return proc.returncode == 0
\* (lines 31-32)
CiComplete(x) ==
    /\ ci_pc[x] = "wait"
    /\ ci_proc[x].state = "reaped"
    /\ ci_result' = [ci_result EXCEPT ![x] = Some(ci_proc[x].returncode = Some(0))]
    /\ ci_pc' = [ci_pc EXCEPT ![x] = "returned"]
    /\ UNCHANGED <<ci_env, ci_proc, ci_deadline, ci_now, notProbeVars>>

\* the timer of wait_for fires: communicate() is cancelled, and
\* except (..., asyncio.TimeoutError): return False (lines 31, 33-34); nothing
\* is sent to the probe
CiExpire(x) ==
    /\ ci_pc[x] = "wait"
    /\ ci_now >= ci_deadline[x]
    /\ ci_result' = [ci_result EXCEPT ![x] = Some(FALSE)]
    /\ ci_pc' = [ci_pc EXCEPT ![x] = "returned"]
    /\ UNCHANGED <<ci_env, ci_proc, ci_deadline, ci_now, notProbeVars>>

\* a second goes by while the call waits for the probe
ProbeClockTick ==
    /\ \E x \in Runs : ci_pc[x] = "wait" /\ ci_now < ci_deadline[x]
    /\ ci_now' = ci_now + 1
    /\ UNCHANGED <<ci_env, ci_pc, ci_proc, ci_deadline, ci_result, notProbeVars>>

\* what can be at an interpreter path: nothing, a file that cannot be
\* executed, or a program that answers `--version` with status 0 or 1, or
\* does not answer
Interpreters ==
    [ spawn : {"ok"}, exit : {None, Some(0), Some(1)} ]
    \cup [ spawn : {"FileNotFoundError", "OSError"}, exit : {None} ]

ProbeInit ==
    /\ DeadIdle
    /\ GraphIdle
    /\ RiskIdle
    /\ ExecIdle
    /\ CompareIdle
    /\ OutputsIdle
    /\ ProjectIdle
    /\ ci_env \in [Runs -> Interpreters]
    /\ ci_pc = [x \in Runs |-> "start"]
    /\ ci_proc = [x \in Runs |-> None]
    /\ ci_deadline = [x \in Runs |-> 0]
    /\ ci_result = [x \in Runs |-> None]
    /\ ci_now = 0

ProbeStep(x) ==
    \/ CiSpawn(x) \/ CiSpawnFails(x) \/ ProbeExit(x) \/ ProbeReap(x)
    \/ CiComplete(x) \/ CiExpire(x)

ProbeNext == (\E x \in Runs : ProbeStep(x)) \/ ProbeClockTick

SpecProbe == ProbeInit /\ [][ProbeNext]_vars

(***************************************************************************)
(* Properties of check_interpreter                                         *)
(***************************************************************************)
\* C29: when check_interpreter has returned, with True or with False and also
\* when its 10 seconds have expired, the probe it started is not running any
\* more.
C29_ProbeTerminated ==
    \A x \in Runs :
        (ci_pc[x] = "returned" /\ ci_proc[x] # None) => ci_proc[x].state # "running"

(***************************************************************************)
(* project_manager.py: the status and the file register of one project     *)
(* under create_project, save_file, analyze_project and transform_file.    *)
(* The calls are those of one event loop: save_file, analyze_project and   *)
(* create_project run without suspending, transform_file suspends once, in *)
(* the gather of its two LLM calls.                                        *)
(***************************************************************************)
\* MigrationStatus (schemas.py, lines 11-17)
PENDING == "pending"
ANALYZING == "analyzing"
READY == "ready"
IN_PROGRESS == "in_progress"
COMPLETED == "completed"
FAILED == "failed"

Str_a_py == <<"a", ".", "p", "y">>
Str_b_py == <<"b", ".", "p", "y">>

\* path.split("/")
RECURSIVE SplitPath(_, _)
SplitPath(path, segment) ==
    IF path = <<>> THEN <<segment>>
    ELSE IF Head(path) = "/" THEN <<segment>> \o SplitPath(Tail(path), <<>>)
    ELSE SplitPath(Tail(path), Append(segment, Head(path)))

\* what is left of base/file_path under os.path.realpath, relative to base:
\* the segments below base, or "outside" when the path leaves it
RECURSIVE Resolve(_, _)
Resolve(segments, below) ==
    IF segments = <<>> THEN below
    ELSE IF Head(segments) \in {<<>>, <<".">>} THEN Resolve(Tail(segments), below)
    ELSE IF Head(segments) = <<".", ".">>
    THEN IF below = <<>> THEN "outside"
         ELSE Resolve(Tail(segments), SubSeq(below, 1, Len(below) - 1))
    ELSE Resolve(Tail(segments), Append(below, Head(segments)))

\* _safe_path(project_id, "source", file_path), lines 109-115: the resolved
\* path, or the ValueError raised
SafePath(file_path) == Resolve(SplitPath(file_path, <<>>), <<>>)

\* decoded.count("\n") + 1 if decoded else 0 (line 174)
LineCount(decoded) == IF decoded = <<>> THEN 0 ELSE Count(decoded, "\n") + 1

\* project_id not in _projects
NoProject == pj = None

PjEnds(call, outcome) == pj_last' = [call |-> call, outcome |-> outcome]

\* create_project, lines 118-139
CreateProject ==
    /\ NoProject
    /\ pj' = [status |-> PENDING, files |-> <<>>]
    /\ PjEnds("create_project", "returned")
    /\ UNCHANGED <<pj_disk, pj_inflight, notProjectVars>>

\* save_file, lines 153-178: the file is written and registered as not
\* migrated; the status of the project is left as it is
SaveFile(filename, content) ==
    LET safe_name == Basename(filename)
    IN IF NoProject \/ safe_name = <<>> \/ Head(safe_name) = "."
       THEN /\ PjEnds("save_file", "ValueError")
            /\ UNCHANGED <<pj, pj_disk, pj_inflight, notProjectVars>>
       ELSE /\ pj_disk' = pj_disk \cup {safe_name}
            /\ pj' = [pj EXCEPT !.files =
                         Put(pj.files, safe_name,
                             [lines |-> LineCount(content), migrated |-> FALSE])]
            /\ PjEnds("save_file", "returned")
            /\ UNCHANGED <<pj_inflight, notProjectVars>>

\* analyze_project, lines 181-245: ANALYZING, then the analyses, which raise
\* or not, then READY
AnalyzeProject(raises) ==
    /\ IF NoProject
       THEN pj' = pj /\ PjEnds("analyze_project", "ValueError")
       ELSE IF raises
       THEN pj' = [pj EXCEPT !.status = ANALYZING] /\ PjEnds("analyze_project", "raised")
       ELSE pj' = [pj EXCEPT !.status = READY] /\ PjEnds("analyze_project", "returned")
    /\ UNCHANGED <<pj_disk, pj_inflight, notProjectVars>>

\* transform_file, lines 248-272: up to the gather of the LLM calls
TransformBegin(file_path) ==
    /\ file_path \notin pj_inflight
    /\ IF \/ NoProject
          \/ SafePath(file_path) = "outside"
          \/ Len(SafePath(file_path)) # 1
          \/ SafePath(file_path)[1] \notin pj_disk
       THEN /\ PjEnds("transform_file", "ValueError")
            /\ UNCHANGED <<pj, pj_inflight>>
       ELSE /\ pj' = [pj EXCEPT !.status = IN_PROGRESS]
            /\ pj_inflight' = pj_inflight \cup {file_path}
            /\ pj_last' = pj_last
    /\ UNCHANGED <<pj_disk, notProjectVars>>

\* project["files"].get(file_path, {}).update({"migrated": True}), line 306
MarkMigrated(files, file_path) ==
    IF file_path \in DOMAIN files
    THEN [files EXCEPT ![file_path].migrated = TRUE]
    ELSE files

\* all(f_info.get("migrated") for f_info in project["files"].values())
\* and project["files"], lines 309-312
AllMigrated(files) ==
    /\ \A f \in DOMAIN files : files[f].migrated
    /\ DOMAIN files # {}

\* transform_file, lines 269-331, from the gather on: the file is marked, and
\* the project is COMPLETED when every registered file is migrated; an
\* exception makes it FAILED
TransformEnd(file_path, fails) ==
    /\ file_path \in pj_inflight
    /\ pj_inflight' = pj_inflight \ {file_path}
    /\ IF fails
       THEN /\ pj' = [pj EXCEPT !.status = FAILED]
            /\ PjEnds("transform_file", "raised")
       ELSE /\ pj' = [pj EXCEPT
                         !.files = MarkMigrated(pj.files, file_path),
                         !.status = IF AllMigrated(MarkMigrated(pj.files, file_path))
                                    THEN COMPLETED ELSE pj.status]
            /\ PjEnds("transform_file", "returned")
    /\ UNCHANGED <<pj_disk, notProjectVars>>

\* the filenames of uploads: two names, a name with a directory, a hidden
\* name and a name that ends with a separator
UploadNames ==
    { Str_a_py, Str_b_py, <<"d", "/">> \o Str_a_py, <<".">> \o Str_a_py, <<"d", "/">> }

\* the contents of uploads: an empty file and a file of one line
UploadContents == { <<>>, <<"x", "\n">> }

\* the file_path of transform_file calls: a registered name, the same file
\* under another spelling, and a path that leaves the source directory
TransformPaths ==
    { Str_a_py, Str_b_py, <<".", "/">> \o Str_b_py, <<".", ".", "/">> \o Str_a_py }

ProjectInit ==
    /\ DeadIdle
    /\ GraphIdle
    /\ RiskIdle
    /\ ExecIdle
    /\ CompareIdle
    /\ OutputsIdle
    /\ ProbeIdle
    /\ pj = None
    /\ pj_disk = {}
    /\ pj_inflight = {}
    /\ pj_last = <<>>

ProjectNext ==
    \/ CreateProject
    \/ \E filename \in UploadNames, content \in UploadContents : SaveFile(filename, content)
    \/ \E raises \in BOOLEAN : AnalyzeProject(raises)
    \/ \E file_path \in TransformPaths : TransformBegin(file_path)
    \/ \E file_path \in TransformPaths, fails \in BOOLEAN : TransformEnd(file_path, fails)

SpecProject == ProjectInit /\ [][ProjectNext]_vars

(***************************************************************************)
(* Properties of the project status                                        *)
(***************************************************************************)
\* C30: after any sequence of create_project, save_file, analyze_project and
\* transform_file calls, the status of the project is COMPLETED only if the
\* project has at least one registered file and every registered file is
\* marked migrated.
C30_CompletedOnlyIfAllMigrated ==
    (pj # None /\ pj.status = COMPLETED) =>
        /\ DOMAIN pj.files # {}
        /\ \A f \in DOMAIN pj.files : pj.files[f].migrated

====
